---- MODULE Spec2Model ----
(***************************************************************************)
(* Model of the strategy backtester (utils/strategy_backtester.py) and of  *)
(* the price table it reads (utils/historical_daily_prices_helper.py).     *)
(*                                                                         *)
(* One call of test_strategy is a sequence of steps: StartRun (date        *)
(* resolution, warm-up check, reset, strategy loading), then per trading   *)
(* day CallStrategy (view, payload, strategy call, order validation),      *)
(* ApplyOrder (one order of the validated list per step) and AutoClose     *)
(* (stop-loss / take-profit enforcement, and after the last day the final  *)
(* valuation).                                                             *)
(*                                                                         *)
(* The executor of strategy sources (utils/safe_python_code_executor.py)   *)
(* is modelled on syntax trees: CheckAndCompile (the static screening),    *)
(* ExecuteCompiled (the module body run with the globals and locals the    *)
(* executor builds) and CallEntry (a call of a function of the returned    *)
(* namespace).                                                             *)
(*                                                                         *)
(* The queries of the price table (GetDfUntilDate, GetTradingDates,        *)
(* GetForDateRange, ExecuteCode) and the backtester guardrail              *)
(* (guardrails/backtester_guardrail.py: GuardrailCall, which starts a      *)
(* call of test_strategy, and GuardrailReturn) are steps of their own.     *)
(*                                                                         *)
(* The strategy-creation flow (crewai_trading_strategy/main.py) is the     *)
(* sequence Kickoff (the start method), MainLoop (one attempt and its      *)
(* routing) and Finish.                                                    *)
(***************************************************************************)
EXTENDS Integers, Sequences, FiniteSets, TLC

VARIABLES
    df,          \* HistoricalDailyPricesHelper.df: the price table, sorted by Date
    holdings,    \* StrategyBacktester._holdings
    next_id,     \* StrategyBacktester._next_id
    pc,          \* position inside test_strategy: "idle", "strategy", "apply", "sltp", "final"
    args,        \* arguments of the current (or last) call of test_strategy
    dates,       \* local `dates` of test_strategy
    di,          \* index in `dates` of the day being simulated
    orders,      \* validated orders of the day not applied yet
    ret,         \* what the last call of test_strategy ended with (Running during a call)
    runs,        \* number of calls of test_strategy started so far
    hist,        \* history: what the steps of the current call did (observation only)
    ex,          \* a SafePythonCodeExecutor and what its caller holds (see NewExecutor)
    queries,     \* the queries made of the price table so far, with what each returned
    guardrail,   \* ValidateBacktesterGuardrail: the call under way and what the last one returned
    flow         \* TradingStrategyCreationFlow: the method to run next, state.attempts_log, what finish selected

engine_vars == <<df, holdings, next_id, pc, args, dates, di, orders, ret, runs, hist>>

vars == <<df, holdings, next_id, pc, args, dates, di, orders, ret, runs, hist, ex, queries, guardrail, flow>>

\* ------------------------------------------------------------------------
\* Python floats.
\*
\* A float is modelled exactly, on the lattice of the doubles that are
\* multiples of 2^-40: [w, t] stands for w + t * 2^-40 (w the whole part, t a
\* count of 2^-40 with |t| * 2^-40 < 1).  Below 8192 = 2^13 every such value
\* is a double (53 bits reach from 2^12 down to 2^-40), so sums, differences
\* and products by whole prices are exact there.  From 8192 on the doubles
\* are 2^-39 apart (then 2^-38, ...), and the exact result is rounded to the
\* nearest of them, ties to the even mantissa, as IEEE-754 does.
\* 1e-12 lies between 1 * 2^-40 and 2 * 2^-40 (1e-12 = 1.0995... * 2^-40).
\* ------------------------------------------------------------------------
F(w, t) == [w |-> w, t |-> t]

None == [none |-> TRUE]

Lt(a, b) == a.w < b.w \/ (a.w = b.w /\ a.t < b.t)
Le(a, b) == a.w < b.w \/ (a.w = b.w /\ a.t <= b.t)
Gt(a, b) == Lt(b, a)
Ge(a, b) == Le(b, a)

\* floor(|w + t * 2^-40|): selects the binade of the value.
Mag(w, t) ==
    IF w > 0 THEN (IF t < 0 THEN w - 1 ELSE w)
    ELSE IF w < 0 THEN (IF t > 0 THEN -w - 1 ELSE -w)
    ELSE 0

\* Distance between neighbouring doubles around magnitude m, in units of 2^-40.
RECURSIVE Grid(_)
Grid(m) == IF m < 8192 THEN 1 ELSE 2 * Grid(m \div 2)

\* n rounded to the nearest multiple of g, a tie going to the even multiple.
RoundHalfEven(n, g) ==
    LET q == n \div g
        r == n % g
    IN  IF 2 * r < g THEN q * g
        ELSE IF 2 * r > g THEN (q + 1) * g
        ELSE IF q % 2 = 0 THEN q * g ELSE (q + 1) * g

\* The double nearest to the exact value w + t * 2^-40.
Round(w, t) == F(w, RoundHalfEven(t, Grid(Mag(w, t))))

Add(a, b) == Round(a.w + b.w, a.t + b.t)
Sub(a, b) == Round(a.w - b.w, a.t - b.t)
\* float(a) * float(p) for a price p that is a whole number (p.t = 0): the
\* exact product is on the lattice and is rounded once.
Mul(a, p) == Round(a.w * p.w, a.t * p.w)

\* The float a + 1e-12, as far as comparisons with lattice values can tell:
\* the exact sum a + 1.0995 * 2^-40 is rounded to the doubles around it.
\* Where the doubles are finer than the lattice the result lies in
\* [a + 2^-40, a + 2 * 2^-40), which compares with every lattice value as
\* a + 2^-40 does.
PlusEps(a) ==
    LET up == a.t >= -1           \* the sign of t + 1.0995
        m  == IF a.w > 0 THEN (IF up THEN a.w ELSE a.w - 1)
              ELSE IF a.w < 0 THEN (IF up THEN -a.w - 1 ELSE -a.w)
              ELSE 0
        g  == Grid(m)
        s  == 10 * a.t + 11
        q  == s \div (10 * g)
        r  == s % (10 * g)
    IN  F(a.w, (IF 2 * r < 10 * g THEN q ELSE q + 1) * g)

\* The largest lattice value that is <= 1e-12.
EpsFloor == F(0, 1)

\* ------------------------------------------------------------------------
\* Price table (HistoricalDailyPricesHelper).  Timestamps are counted in
\* half days: a date-only value is a multiple of TicksPerDay.
\* ------------------------------------------------------------------------
TicksPerDay == 2

Day(n) == n * TicksPerDay

Bar(d, o, h, l, c) ==
    [Date |-> Day(d), Open |-> o, High |-> h, Low |-> l, Close |-> c, Volume |-> 1]

\* The table the model runs on: candles shaped like the fixture of
\* tests/test_strategy_backtester.py, with a gap (no candle on day 3), and a
\* last candle at a price of 2, where a cost can equal the whole balance
\* plus one unit in its last place.
TableA ==
    << Bar(1, 100, 102, 98, 100),
       Bar(2, 101, 112, 95, 105),
       Bar(4, 105, 109, 99, 107),
       Bar(5, 108, 121, 100, 120),
       Bar(6, 2, 3, 1, 2) >>

Tables == {TableA}

\* pd.Timestamp(value).normalize()
to_timestamp(value) == (value \div TicksPerDay) * TicksPerDay

\* index.searchsorted(cutoff, side="right") on the sorted index of table.
RECURSIVE searchsorted_right(_, _, _)
searchsorted_right(table, cutoff, i) ==
    IF i > Len(table) THEN Len(table)
    ELSE IF table[i].Date > cutoff THEN i - 1
    ELSE searchsorted_right(table, cutoff, i + 1)

\* get_df_until_date with the cutoff one day late: the view reaches the
\* day after the date asked for.
get_df_until_date_day_late(table, date) ==
    LET cutoff == to_timestamp(date) + TicksPerDay
        end    == searchsorted_right(table, cutoff, 1)
    IN  SubSeq(table, 1, end)

\* get_df_until_date with searchsorted(cutoff, side="left"): the cutoff's own
\* row is left out.
get_df_until_date_exclusive(table, date) ==
    SelectSeq(table, LAMBDA b : b.Date < to_timestamp(date))

\* get_df_until_date: the rows up to the cutoff, the cutoff's own row included.
get_df_until_date(table, date) ==
    LET cutoff == to_timestamp(date)
        end    == searchsorted_right(table, cutoff, 1)
    IN  SubSeq(table, 1, end)

\* _validate_and_slice_range checking the dataset bounds before the order of
\* the endpoints.
validate_and_slice_range_bounds_first(table, start, end) ==
    LET start_ts == to_timestamp(start)
        end_ts   == to_timestamp(end)
        min_ts   == to_timestamp(table[1].Date)
        max_ts   == to_timestamp(table[Len(table)].Date)
        subset   == SelectSeq(table, LAMBDA b : start_ts <= b.Date /\ b.Date <= end_ts)
    IN  IF start_ts < min_ts \/ end_ts > max_ts
        THEN [ok |-> FALSE, error |-> "outside the dataset bounds"]
        ELSE IF start_ts > end_ts THEN [ok |-> FALSE, error |-> "start is after end"]
        ELSE IF subset = <<>> THEN [ok |-> FALSE, error |-> "No rows found in range"]
        ELSE [ok |-> TRUE, subset |-> subset]

\* _validate_and_slice_range: the error raised, or the subset in range.
validate_and_slice_range(table, start, end) ==
    LET start_ts == to_timestamp(start)
        end_ts   == to_timestamp(end)
        min_ts   == to_timestamp(table[1].Date)
        max_ts   == to_timestamp(table[Len(table)].Date)
        subset   == SelectSeq(table, LAMBDA b : start_ts <= b.Date /\ b.Date <= end_ts)
    IN  IF start_ts > end_ts THEN [ok |-> FALSE, error |-> "start is after end"]
        ELSE IF start_ts < min_ts \/ end_ts > max_ts
             THEN [ok |-> FALSE, error |-> "outside the dataset bounds"]
        ELSE IF subset = <<>> THEN [ok |-> FALSE, error |-> "No rows found in range"]
        ELSE [ok |-> TRUE, subset |-> subset]

get_trading_dates(table, start, end) ==
    LET r == validate_and_slice_range(table, start, end)
    IN  IF r.ok
        THEN [ok |-> TRUE, dates |-> [i \in 1..Len(r.subset) |-> to_timestamp(r.subset[i].Date)]]
        ELSE r

\* get_for_date_range: one PriceDataPoint per row of the subset.
get_for_date_range(table, start, end) ==
    LET r == validate_and_slice_range(table, start, end)
    IN  IF r.ok
        THEN [ok |-> TRUE,
              points |-> [i \in 1..Len(r.subset) |->
                            [r.subset[i] EXCEPT !.Date = to_timestamp(@)]]]
        ELSE r

\* self.prices.df.loc[day]
row_at(table, day) == CHOOSE b \in {table[i] : i \in 1..Len(table)} : b.Date = day

\* The queries of the table a caller makes, each remembered with what it was
\* given: at most MaxQueries of them.
MaxQueries == 2

Query(fn, start, end, out) == [fn |-> fn, start |-> start, end |-> end, out |-> out]

GetDfUntilDate(date) ==
    /\ Len(queries) < MaxQueries
    /\ queries' = Append(queries,
                     Query("get_df_until_date", date, date, get_df_until_date(df, date)))
    /\ UNCHANGED <<engine_vars, ex, guardrail, flow>>

GetTradingDates(start, end) ==
    /\ Len(queries) < MaxQueries
    /\ queries' = Append(queries,
                     Query("get_trading_dates", start, end, get_trading_dates(df, start, end)))
    /\ UNCHANGED <<engine_vars, ex, guardrail, flow>>

GetForDateRange(start, end) ==
    /\ Len(queries) < MaxQueries
    /\ queries' = Append(queries,
                     Query("get_for_date_range", start, end, get_for_date_range(df, start, end)))
    /\ UNCHANGED <<engine_vars, ex, guardrail, flow>>

\* ------------------------------------------------------------------------
\* Order model (BuyOrder, SellOrder, OrdersAdapter).  A raw order is the
\* mapping the strategy returned: a record with whatever keys it carries.
\* ------------------------------------------------------------------------
IsFloat(v) == DOMAIN v = {"w", "t"}

Has(raw, key) == key \in DOMAIN raw

OptionalFloat(raw, key) == (~Has(raw, key)) \/ raw[key] = None \/ IsFloat(raw[key])

\* BuyOrder: action, asset, amount required; stop_loss, take_profit default None.
validate_buy(raw) ==
    IF Has(raw, "asset") /\ raw.asset = "BTC"
       /\ Has(raw, "amount") /\ IsFloat(raw.amount)
       /\ OptionalFloat(raw, "stop_loss") /\ OptionalFloat(raw, "take_profit")
    THEN [ok |-> TRUE,
          order |-> [action |-> "BUY", asset |-> "BTC", amount |-> raw.amount,
                     stop_loss |-> IF Has(raw, "stop_loss") THEN raw.stop_loss ELSE None,
                     take_profit |-> IF Has(raw, "take_profit") THEN raw.take_profit ELSE None]]
    ELSE [ok |-> FALSE]

\* SellOrder: action, holding_id, amount required.
validate_sell(raw) ==
    IF Has(raw, "holding_id") /\ Has(raw, "amount") /\ IsFloat(raw.amount)
    THEN [ok |-> TRUE,
          order |-> [action |-> "SELL", holding_id |-> raw.holding_id, amount |-> raw.amount]]
    ELSE [ok |-> FALSE]

\* Order: the union discriminated by "action".
validate_order(raw) ==
    IF ~Has(raw, "action") THEN [ok |-> FALSE]
    ELSE IF raw.action = "BUY" THEN validate_buy(raw)
    ELSE IF raw.action = "SELL" THEN validate_sell(raw)
    ELSE [ok |-> FALSE]

\* OrdersAdapter.validate_python(raw_orders): every element, or an error.
OrdersAdapter_validate(raws) ==
    IF \A i \in 1..Len(raws) : validate_order(raws[i]).ok
    THEN [ok |-> TRUE, orders |-> [i \in 1..Len(raws) |-> validate_order(raws[i]).order]]
    ELSE [ok |-> FALSE]

\* ------------------------------------------------------------------------
\* Portfolio bookkeeping (StrategyBacktester).
\* ------------------------------------------------------------------------
INITIAL_PORTFOLIO_USD == 10000

USD_HOLDING_ID == "USD"

HoldingState(id, asset, amount, sl, tp) ==
    [holding_id |-> id, asset |-> asset, amount |-> amount, stop_loss |-> sl, take_profit |-> tp]

\* _reset_portfolio: the new _holdings and _next_id.
reset_portfolio ==
    [holdings |-> << HoldingState(USD_HOLDING_ID, "USD", F(INITIAL_PORTFOLIO_USD, 0), None, None) >>,
     next_id  |-> 1]

\* _new_holding_id as it would be without the increment of _next_id.
new_holding_id_no_increment(n) == [hid |-> "H" \o ToString(n), next_id |-> n]

\* _new_holding_id: the id handed out and the counter after it.
new_holding_id(n) == [hid |-> "H" \o ToString(n), next_id |-> n + 1]

\* _get_usd_holding: position of the first USD holding from i on (0: RuntimeError).
RECURSIVE usd_holding_from(_, _)
usd_holding_from(hs, i) ==
    IF i > Len(hs) THEN 0
    ELSE IF hs[i].asset = "USD" THEN i
    ELSE usd_holding_from(hs, i + 1)

get_usd_holding(hs) == usd_holding_from(hs, 1)

\* _find_holding: position of the first holding with that id from i on (0: None).
RECURSIVE find_holding_from(_, _, _)
find_holding_from(hs, id, i) ==
    IF i > Len(hs) THEN 0
    ELSE IF hs[i].holding_id = id THEN i
    ELSE find_holding_from(hs, id, i + 1)

find_holding(hs, id) == find_holding_from(hs, id, 1)

\* What an operation on the ledger leaves: the ledger, and the error raised if any.
Done(hs, nid) == [ok |-> TRUE, holdings |-> hs, next_id |-> nid, error |-> ""]
Raise(hs, nid, msg) == [ok |-> FALSE, holdings |-> hs, next_id |-> nid, error |-> msg]

\* The removal of a closed holding with `h.holding_id == ...` for `!=`.
remove_holding_inverted(hs, id) == SelectSeq(hs, LAMBDA h : h.holding_id = id)

\* [h for h in self._holdings if h.holding_id != target.holding_id]
remove_holding(hs, id) == SelectSeq(hs, LAMBDA h : h.holding_id # id)

\* _apply_buy taking the id for the new holding before it checks the funds.
apply_buy_takes_id_first(hs, nid, order, execution_price) ==
    IF Le(order.amount, F(0, 0)) THEN Raise(hs, nid, "BUY amount must be > 0.")
    ELSE
    LET u == get_usd_holding(hs)
        id == new_holding_id(nid)
    IN
    IF u = 0 THEN Raise(hs, nid, "USD holding missing from portfolio state.")
    ELSE
    LET cost == Mul(order.amount, execution_price) IN
    IF Gt(cost, PlusEps(hs[u].amount)) THEN Raise(hs, id.next_id, "Insufficient USD for BUY")
    ELSE
    LET paid == [hs EXCEPT ![u].amount = Sub(@, cost)]
    IN  Done(Append(paid, HoldingState(id.hid, "BTC", order.amount,
                                       order.stop_loss, order.take_profit)),
             id.next_id)

\* _apply_buy numbering a new holding by the size of the book instead of
\* the counter.
apply_buy_reuses_ids(hs, nid, order, execution_price) ==
    IF Le(order.amount, F(0, 0)) THEN Raise(hs, nid, "BUY amount must be > 0.")
    ELSE
    LET u == get_usd_holding(hs) IN
    IF u = 0 THEN Raise(hs, nid, "USD holding missing from portfolio state.")
    ELSE
    LET cost == Mul(order.amount, execution_price) IN
    IF Gt(cost, PlusEps(hs[u].amount)) THEN Raise(hs, nid, "Insufficient USD for BUY")
    ELSE
    LET paid == [hs EXCEPT ![u].amount = Sub(@, cost)]
    IN  Done(Append(paid, HoldingState("H" \o ToString(Len(hs)), "BTC", order.amount,
                                       order.stop_loss, order.take_profit)),
             nid + 1)

\* _apply_buy
apply_buy(hs, nid, order, execution_price) ==
    IF Le(order.amount, F(0, 0)) THEN Raise(hs, nid, "BUY amount must be > 0.")
    ELSE
    LET u == get_usd_holding(hs) IN
    IF u = 0 THEN Raise(hs, nid, "USD holding missing from portfolio state.")
    ELSE
    LET cost == Mul(order.amount, execution_price) IN
    IF Gt(cost, PlusEps(hs[u].amount)) THEN Raise(hs, nid, "Insufficient USD for BUY")
    ELSE
    LET id == new_holding_id(nid)
        paid == [hs EXCEPT ![u].amount = Sub(@, cost)]
    IN  Done(Append(paid, HoldingState(id.hid, "BTC", order.amount,
                                       order.stop_loss, order.take_profit)),
             id.next_id)

\* _apply_sell removing the target only when nothing at all is left of it.
apply_sell_removes_at_zero(hs, nid, order, execution_price) ==
    IF Le(order.amount, F(0, 0)) THEN Raise(hs, nid, "SELL amount must be > 0.")
    ELSE IF order.holding_id = USD_HOLDING_ID
         THEN Raise(hs, nid, "Cannot SELL the USD holding via SELL order.")
    ELSE
    LET k == find_holding(hs, order.holding_id) IN
    IF k = 0 THEN Raise(hs, nid, "SELL refers to non-existing holding_id")
    ELSE IF hs[k].asset # "BTC" THEN Raise(hs, nid, "SELL holding must be BTC")
    ELSE IF Gt(order.amount, PlusEps(hs[k].amount))
         THEN Raise(hs, nid, "Cannot SELL more than holding contains")
    ELSE
    LET proceeds == Mul(order.amount, execution_price)
        taken    == [hs EXCEPT ![k].amount = Sub(@, order.amount)]
        u        == get_usd_holding(taken)
        paid     == [taken EXCEPT ![u].amount = Add(@, proceeds)]
    IN  IF Le(paid[k].amount, F(0, 0))
        THEN Done(remove_holding(paid, paid[k].holding_id), nid)
        ELSE Done(paid, nid)

\* _apply_sell
apply_sell(hs, nid, order, execution_price) ==
    IF Le(order.amount, F(0, 0)) THEN Raise(hs, nid, "SELL amount must be > 0.")
    ELSE IF order.holding_id = USD_HOLDING_ID
         THEN Raise(hs, nid, "Cannot SELL the USD holding via SELL order.")
    ELSE
    LET k == find_holding(hs, order.holding_id) IN
    IF k = 0 THEN Raise(hs, nid, "SELL refers to non-existing holding_id")
    ELSE IF hs[k].asset # "BTC" THEN Raise(hs, nid, "SELL holding must be BTC")
    ELSE IF Gt(order.amount, PlusEps(hs[k].amount))
         THEN Raise(hs, nid, "Cannot SELL more than holding contains")
    ELSE
    LET proceeds == Mul(order.amount, execution_price)
        taken    == [hs EXCEPT ![k].amount = Sub(@, order.amount)]
        u        == get_usd_holding(taken)
    IN  IF u = 0 THEN Raise(taken, nid, "USD holding missing from portfolio state.")
        ELSE
        LET paid == [taken EXCEPT ![u].amount = Add(@, proceeds)]
        IN  IF Le(paid[k].amount, EpsFloor)
            THEN Done(remove_holding(paid, paid[k].holding_id), nid)
            ELSE Done(paid, nid)

\* One iteration of the loop of _apply_orders.
apply_order(hs, nid, order, execution_price) ==
    IF order.action = "BUY" THEN apply_buy(hs, nid, order, execution_price)
    ELSE IF order.action = "SELL" THEN apply_sell(hs, nid, order, execution_price)
    ELSE Raise(hs, nid, "Unsupported order type")

\* _apply_orders over the first n orders of the list: the loop stops at the
\* first order that raises.
RECURSIVE apply_orders(_, _, _, _, _)
apply_orders(hs, nid, os, n, execution_price) ==
    IF n = 0 THEN Done(hs, nid)
    ELSE LET before == apply_orders(hs, nid, os, n - 1, execution_price)
         IN  IF ~before.ok THEN before
             ELSE apply_order(before.holdings, before.next_id, os[n], execution_price)

\* ------------------------------------------------------------------------
\* Pricing helpers and snapshots.
\* ------------------------------------------------------------------------
row_open(row) == F(row.Open, 0)
row_high(row) == F(row.High, 0)
row_low(row) == F(row.Low, 0)
\* _row_close reading the candle's Open.
row_close_reads_open(row) == F(row.Open, 0)
row_close(row) == F(row.Close, 0)

\* _last_known_close reading the first row of the view instead of the last.
last_known_close_first(day_df) == F(day_df[1].Close, 0)

\* _last_known_close: day_df["Close"].iloc[-1]
last_known_close(day_df) == F(day_df[Len(day_df)].Close, 0)

\* _snapshot_holdings_with_price
snapshot_holdings_with_price(hs, btc_price) ==
    [i \in 1..Len(hs) |->
        LET unit == IF hs[i].asset = "USD" THEN F(1, 0) ELSE btc_price
        IN  [holding_id |-> hs[i].holding_id, asset |-> hs[i].asset,
             amount |-> hs[i].amount, unit_value_usd |-> unit,
             total_value_usd |-> Mul(hs[i].amount, unit),
             stop_loss |-> hs[i].stop_loss, take_profit |-> hs[i].take_profit]]

\* _strategy_holdings_payload
strategy_holdings_payload(hs, last_known_btc_price) ==
    snapshot_holdings_with_price(hs, last_known_btc_price)

\* An object handed to user code: what it holds, and the object whose data a
\* write to it changes ("prices.df", "ledger", or "own" for an object that
\* shares nothing).
Handed(data, base) == [data |-> data, base |-> base]

\* frame.iloc[:end]: a slice of the frame's data.
iloc_until(frame, end) == Handed(SubSeq(frame.data, 1, end), frame.base)

\* DataFrame.copy()
frame_copy(frame) == Handed(frame.data, "own")

\* _with_date_column: reset_index returns a new frame.
with_date_column(frame) == Handed(frame.data, "own")

\* The arguments of run as the table's own rows and the ledger's own objects.
runner_arguments_shared(table, as_of, hs, last_known_btc) ==
    [df |-> iloc_until(Handed(table, "prices.df"),
                       searchsorted_right(table, to_timestamp(as_of), 1)),
     holdings |-> Handed(strategy_holdings_payload(hs, last_known_btc), "ledger")]

\* The arguments of run: day_df.copy(), where day_df is what
\* get_df_until_date built from self.df.iloc[:end].copy(), and the
\* model_dump() of snapshots made for the call.
runner_arguments(table, as_of, hs, last_known_btc) ==
    [df |-> frame_copy(with_date_column(frame_copy(
                iloc_until(Handed(table, "prices.df"),
                           searchsorted_right(table, to_timestamp(as_of), 1))))),
     holdings |-> Handed(strategy_holdings_payload(hs, last_known_btc), "own")]

\* The price table after user code has overwritten every cell of the frame
\* it received.
written_table(table, frame, scribble) ==
    IF scribble /\ frame.base = "prices.df"
    THEN [i \in 1..Len(table) |->
            IF i <= Len(frame.data)
            THEN [table[i] EXCEPT !.Open = 0, !.High = 0, !.Low = 0, !.Close = 0]
            ELSE table[i]]
    ELSE table

\* The ledger after user code has removed every mapping of the list it
\* received.
written_ledger(hs, payload, scribble) ==
    IF scribble /\ payload.base = "ledger" THEN <<>> ELSE hs

\* sum(h.total_value_usd for h in snapshots): 0 + x1 + x2 + ..., left to right.
RECURSIVE sum_total_value(_, _)
sum_total_value(snapshots, n) ==
    IF n = 0 THEN F(0, 0)
    ELSE Add(sum_total_value(snapshots, n - 1), snapshots[n].total_value_usd)

\* ((total_usd / INITIAL_PORTFOLIO_USD) - 1.0) * 100.0, kept as the fraction
\* (total_usd - INITIAL_PORTFOLIO_USD) / (INITIAL_PORTFOLIO_USD / 100) it rounds.
revenue_percent(total_usd) ==
    [num |-> F(total_usd.w - INITIAL_PORTFOLIO_USD, total_usd.t),
     den |-> INITIAL_PORTFOLIO_USD \div 100]

\* The BacktestResult built at the end of test_strategy.
BacktestResult(hs, close_price) ==
    LET snapshots == snapshot_holdings_with_price(hs, close_price)
        total_usd == sum_total_value(snapshots, Len(snapshots))
    IN  [holdings |-> snapshots, total_portfolio_usd |-> total_usd,
         revenue_percent |-> revenue_percent(total_usd)]

\* ------------------------------------------------------------------------
\* Stop loss / take profit.
\* ------------------------------------------------------------------------
SellOrder(id, amount) == [action |-> "SELL", holding_id |-> id, amount |-> amount]

Sale(h, price, trigger) ==
    [holding_id |-> h.holding_id, amount |-> h.amount, price |-> price, trigger |-> trigger]

\* The loop of _auto_close_on_thresholds over the list btc_holdings, from its
\* i-th element on.  st is the ledger so far with the sales made (st.sales);
\* an exception of _apply_sell ends the loop.  h is the holding object itself,
\* so h.amount is read from the ledger at the time the holding is visited.
RECURSIVE auto_close_loop(_, _, _, _, _)
auto_close_loop(st, btc_holdings, i, low, high) ==
    IF i > Len(btc_holdings) \/ ~st.ok THEN st
    ELSE
    LET k == find_holding(st.holdings, btc_holdings[i].holding_id) IN
    IF k = 0 THEN auto_close_loop(st, btc_holdings, i + 1, low, high)
    ELSE
    LET h == st.holdings[k]
        sell(price, trigger) ==
            LET r == apply_sell(st.holdings, st.next_id, SellOrder(h.holding_id, h.amount), price)
            IN  [ok |-> r.ok, holdings |-> r.holdings, next_id |-> r.next_id, error |-> r.error,
                 sales |-> IF r.ok THEN Append(st.sales, Sale(h, price, trigger)) ELSE st.sales]
    IN  IF h.stop_loss # None /\ Le(low, h.stop_loss)
        THEN auto_close_loop(sell(h.stop_loss, "stop_loss"), btc_holdings, i + 1, low, high)
        ELSE IF h.take_profit # None /\ Ge(high, h.take_profit)
        THEN auto_close_loop(sell(h.take_profit, "take_profit"), btc_holdings, i + 1, low, high)
        ELSE auto_close_loop(st, btc_holdings, i + 1, low, high)

\* _auto_close_on_thresholds taking every threshold that is set as reached,
\* whatever the day's Low and High.
auto_close_on_thresholds_ignores_bar(hs, nid, day_row) ==
    LET btc_holdings == SelectSeq(hs, LAMBDA h : h.asset = "BTC" /\ Gt(h.amount, EpsFloor))
    IN  auto_close_loop([ok |-> TRUE, holdings |-> hs, next_id |-> nid, error |-> "",
                         sales |-> <<>>],
                        btc_holdings, 1, F(0, 0), F(1000000, 0))

\* _auto_close_on_thresholds
auto_close_on_thresholds(hs, nid, day_row) ==
    LET low  == row_low(day_row)
        high == row_high(day_row)
        btc_holdings == SelectSeq(hs, LAMBDA h : h.asset = "BTC" /\ Gt(h.amount, EpsFloor))
    IN  auto_close_loop([ok |-> TRUE, holdings |-> hs, next_id |-> nid, error |-> "",
                         sales |-> <<>>],
                        btc_holdings, 1, low, high)

\* ------------------------------------------------------------------------
\* SafePythonCodeExecutor (utils/safe_python_code_executor.py).
\*
\* A module name is the sequence of its dotted components: numpy.linalg is
\* <<"numpy", "linalg">>.  A source is given by what ast.parse makes of it:
\* a string that is blank, a string that does not parse, or the statements
\* of its module body as syntax-tree nodes.
\* ------------------------------------------------------------------------
DefaultAllowedModules ==
    { <<"math">>, <<"statistics">>, <<"datetime">>, <<"re">>, <<"numpy">>, <<"pandas">> }

DefaultBannedNames ==
    { "__import__", "open", "exec", "eval", "compile", "input",
      "globals", "locals", "vars", "dir", "help",
      "getattr", "setattr", "delattr", "__builtins__" }

DefaultBannedBuiltins ==
    { "eval", "exec", "compile", "open", "input", "breakpoint",
      "globals", "locals", "vars", "dir", "help",
      "getattr", "setattr", "delattr" }

DefaultBannedAttributes ==
    { "__class__", "__subclasses__", "__bases__", "__mro__",
      "__getattribute__", "__getattr__", "__setattr__", "__delattr__",
      "__dict__", "__globals__", "__code__", "__closure__",
      "f_globals", "f_locals", "gi_frame", "cr_frame" }

\* An optional set argument of __init__: left out (None) or given.
NotGiven == [given |-> FALSE, value |-> {}]

Given(s) == [given |-> TRUE, value |-> s]

\* `arg or default`: the default also replaces a given empty set.
or_default(arg, default) ==
    IF arg.given /\ arg.value # {} THEN arg.value ELSE default

\* __init__
SafePythonCodeExecutor(allowed_modules, banned_names, banned_builtins, banned_attributes) ==
    [allowed_modules   |-> or_default(allowed_modules, DefaultAllowedModules),
     banned_names      |-> or_default(banned_names, DefaultBannedNames),
     banned_builtins   |-> or_default(banned_builtins, DefaultBannedBuiltins),
     banned_attributes |-> or_default(banned_attributes, DefaultBannedAttributes)]

\* Syntax-tree nodes.  id is the identifier of a Name, the attr of an
\* Attribute, the name of a FunctionDef or ClassDef, the text of a literal;
\* names are the dotted names of an Import's aliases, or the module of an
\* ImportFrom (none for `from . import x`); level counts the leading dots of
\* an ImportFrom; body holds the child nodes in the order ast lists them.
Node(kind, id, names, level, body) ==
    [kind |-> kind, id |-> id, names |-> names, level |-> level, body |-> body]

Module(body) == Node("Module", "", <<>>, 0, body)

Import(names) == Node("Import", "", names, 0, <<>>)

\* module is NoModule for `from . import name`.
NoModule == <<>>

ImportFrom(module, level, name) ==
    Node("ImportFrom", name, IF module = NoModule THEN <<>> ELSE <<module>>, level, <<>>)

Name(id) == Node("Name", id, <<>>, 0, <<>>)

Attribute(value, attr) == Node("Attribute", attr, <<>>, 0, <<value>>)

Call(func) == Node("Call", "", <<>>, 0, <<func>>)

Num(text) == Node("Constant", text, <<>>, 0, <<>>)

FunctionDef(name, body) == Node("FunctionDef", name, <<>>, 0, body)

ClassDef(name, body) == Node("ClassDef", name, <<>>, 0, body)

Return(value) == Node("Return", "", <<>>, 0, <<value>>)

Expr(value) == Node("Expr", "", <<>>, 0, <<value>>)

Assign(target, value) == Node("Assign", "", <<>>, 0, <<target, value>>)

\* The code argument of check_and_compile.
NotAString == [str |-> FALSE, text |-> "", body |-> <<>>]

Blank == [str |-> TRUE, text |-> "blank", body |-> <<>>]

Malformed == [str |-> TRUE, text |-> "malformed", body |-> <<>>]

Source(body) == [str |-> TRUE, text |-> "module", body |-> body]

\* ast.iter_child_nodes
iter_child_nodes(node) == node.body

\* The nodes directly under the tree only.
RECURSIVE walk_children_only(_)
walk_children_only(todo) ==
    IF todo = <<>> THEN <<>>
    ELSE <<Head(todo)>> \o Head(todo).body
         \o (IF Tail(todo) = <<>> THEN <<>> ELSE walk_children_only(Tail(todo)))

\* ast.walk: the deque `todo` is emptied from the left, each node's children
\* are added at the right (breadth first).
RECURSIVE walk(_)
walk(todo) ==
    IF todo = <<>> THEN <<>>
    ELSE <<Head(todo)>> \o walk(Tail(todo) \o iter_child_nodes(Head(todo)))

\* The whole dotted name.
whole_name(name) == name

\* name.split(".", 1)[0]
split_first(name) == IF name = <<>> THEN <<>> ELSE SubSeq(name, 1, 1)

ValueError(msg) == [ok |-> FALSE, exc |-> "ValueError", msg |-> msg]

Compiled(tree) == [ok |-> TRUE, tree |-> tree]

\* The body of the loop of check_and_compile for one node: the message of
\* the ValueError it raises, or "" when the node passes.
screen(self, node) ==
    IF node.kind = "Import"
    THEN IF \E i \in 1..Len(node.names) :
                split_first(node.names[i]) \notin self.allowed_modules
         THEN "Unsafe import not allowed: import"
         ELSE ""
    ELSE IF node.kind = "ImportFrom"
    THEN IF node.names = <<>>
         THEN "Unsafe relative import is not allowed."
         ELSE IF split_first(node.names[1]) \notin self.allowed_modules
         THEN "Unsafe import not allowed: from"
         ELSE ""
    ELSE IF node.kind = "Name" /\ node.id \in self.banned_names
    THEN "Use of banned name is not allowed"
    ELSE IF node.kind = "Attribute" /\ node.id \in self.banned_attributes
    THEN "Access to banned attribute is not allowed"
    ELSE ""

\* check_and_compile: the code object (here the tree it was compiled from)
\* or the ValueError raised.
check_and_compile(self, code) ==
    IF ~code.str \/ code.text = "blank"
    THEN ValueError("code must be a non-empty string.")
    ELSE IF code.text = "malformed"
    THEN ValueError("Provided code has a syntax error")
    ELSE LET tree  == Module(code.body)
             nodes == walk(<<tree>>)
             bad   == {i \in 1..Len(nodes) : screen(self, nodes[i]) # ""}
         IN  IF bad = {} THEN Compiled(tree)
             ELSE LET first == CHOOSE i \in bad : \A j \in bad : i <= j
                  IN  ValueError(screen(self, nodes[first]))

\* Objects of executed code: modules, functions, classes, instances, bound
\* methods, literals, builtins.  id names the object, body holds the
\* statements of a function, method or class.
Value(v, id, body) == [v |-> v, id |-> id, body |-> body]

ModuleObject(name) == Value("module", name, <<>>)

FunctionObject(name, body) == Value("function", name, body)

ClassObject(name, body) == Value("class", name, body)

Instance(name, body) == Value("instance", name, body)

Literal(text) == Value("literal", text, <<>>)

Builtin(name) == Value("builtin", name, <<>>)

NoneValue == Value("literal", "None", <<>>)

\* A mapping with no key, and {**g, **l}.
EmptyMap == [n \in {} |-> NoneValue]

Merged(g, l) ==
    [n \in DOMAIN g \cup DOMAIN l |-> IF n \in DOMAIN l THEN l[n] ELSE g[n]]

Bind(m, key, value) == Merged(m, [n \in {key} |-> value])

\* py_builtins.__dict__: the names of the host's builtins module the model
\* keeps, and those of them that start with "_".
py_builtins ==
    { "eval", "exec", "compile", "open", "input", "breakpoint",
      "globals", "locals", "vars", "dir", "help",
      "getattr", "setattr", "delattr",
      "__import__", "__build_class__", "__name__", "__doc__", "__debug__",
      "int", "len", "print", "object", "type", "super",
      "Exception", "BaseException", "SystemExit" }

startswith_underscore(name) ==
    name \in { "__import__", "__build_class__", "__name__", "__doc__", "__debug__" }

\* The modules the host can import, and the packages among them.
InstalledModules ==
    { <<"math">>, <<"statistics">>, <<"datetime">>, <<"re">>, <<"numpy">>, <<"pandas">>,
      <<"numpy", "linalg">>, <<"os">>, <<"os", "path">>, <<"subprocess">> }

\* Attributes the host's modules have from the start.
ModuleAttributes == { <<"numpy", "sum">>, <<"math", "pi">> }

\* Outcome of evaluating an expression or executing statements: a value (and
\* whether a return produced it), the local mapping and the attributes set
\* on the host's module objects so far, or the exception raised.
Normal(value, returned, loc, host) ==
    [ok |-> TRUE, exc |-> "", name |-> "", value |-> value, returned |-> returned,
     loc |-> loc, host |-> host]

Throws(exc, name, loc, host) ==
    [ok |-> FALSE, exc |-> exc, name |-> name, value |-> NoneValue, returned |-> FALSE,
     loc |-> loc, host |-> host]

\* _safe_import: "" when the host's __import__ returns the module, else the
\* exception raised.  The host's __import__ fails on a relative import (the
\* namespace has no package) and on a module that is not installed.
safe_import(self, name, level) ==
    IF split_first(name) \notin self.allowed_modules THEN "ImportError"
    ELSE IF level = 0 /\ name \in InstalledModules THEN "" ELSE "ImportError"

\* The builtins mapping that keeps the host's every public name.
build_safe_builtins_keep_banned(self) ==
    [n \in {m \in py_builtins : ~(startswith_underscore(m) /\ m # "__build_class__")}
           \cup {"__import__"}
        |-> IF n = "__import__" THEN FunctionObject("_safe_import", <<>>) ELSE Builtin(n)]

\* _build_safe_builtins
build_safe_builtins(self) ==
    [n \in {m \in py_builtins : /\ ~(startswith_underscore(m) /\ m # "__build_class__")
                                /\ m \notin self.banned_builtins}
           \cup {"__import__"}
        |-> IF n = "__import__" THEN FunctionObject("_safe_import", <<>>) ELSE Builtin(n)]

\* Name lookup of executed code: the local mapping of the running block, then
\* the globals, then the builtins.
lookup(id, loc, env) ==
    IF id \in DOMAIN loc THEN [found |-> TRUE, value |-> loc[id]]
    ELSE IF id \in DOMAIN env.globals THEN [found |-> TRUE, value |-> env.globals[id]]
    ELSE IF id \in DOMAIN env.builtins THEN [found |-> TRUE, value |-> env.builtins[id]]
    ELSE [found |-> FALSE, value |-> NoneValue]

\* The import of one module by an import statement: the statement reads
\* __import__ from the builtins; an interpreter that needs a dict there
\* raises SystemError on the MappingProxyType, another calls the hook.
import_name(name, level, env) ==
    IF env.import_needs_dict THEN "SystemError"
    ELSE safe_import(env.self, name, level)

Methods(body, id) == SelectSeq(body, LAMBDA s : s.kind = "FunctionDef" /\ s.id = id)

RECURSIVE eval(_, _, _, _)
RECURSIVE exec(_, _, _, _, _)

\* Evaluation of an expression by a block whose local mapping is loc.
eval(e, loc, env, host) ==
    IF e.kind = "Constant" THEN Normal(Literal(e.id), FALSE, loc, host)
    ELSE IF e.kind = "Name"
    THEN LET r == lookup(e.id, loc, env)
         IN  IF r.found THEN Normal(r.value, FALSE, loc, host)
             ELSE Throws("NameError", e.id, loc, host)
    ELSE IF e.kind = "Attribute"
    THEN LET r == eval(e.body[1], loc, env, host)
         IN  IF ~r.ok THEN r
             ELSE IF r.value.v = "module"
             THEN IF <<r.value.id, e.id>> \in DOMAIN r.host
                  THEN Normal(r.host[<<r.value.id, e.id>>], FALSE, loc, r.host)
                  ELSE IF <<r.value.id, e.id>> \in ModuleAttributes
                  THEN Normal(Builtin(e.id), FALSE, loc, r.host)
                  ELSE Throws("AttributeError", e.id, loc, r.host)
             ELSE IF r.value.v = "instance" /\ Methods(r.value.body, e.id) # <<>>
             THEN Normal(Value("method", e.id, Methods(r.value.body, e.id)[1].body),
                         FALSE, loc, r.host)
             ELSE Throws("AttributeError", e.id, loc, r.host)
    ELSE IF e.kind = "Call"
    THEN LET f == eval(e.body[1], loc, env, host)
         IN  IF ~f.ok THEN f
             ELSE IF f.value.v \in {"function", "method"}
             THEN LET r == exec(f.value.body, 1, EmptyMap, env, f.host)
                  IN  [r EXCEPT !.returned = FALSE, !.loc = loc]
             ELSE IF f.value.v = "class"
             THEN Normal(Instance(f.value.id, f.value.body), FALSE, loc, f.host)
             ELSE IF f.value.v = "builtin"
             THEN Normal(Literal(f.value.id), FALSE, loc, f.host)
             ELSE Throws("TypeError", f.value.id, loc, f.host)
    ELSE Throws("TypeError", e.kind, loc, host)

\* Execution of the statements stmts[i..] by a block whose local mapping is
\* loc: the module body (loc is the locals handed to exec), a class body or
\* a function body (loc starts empty).
exec(stmts, i, loc, env, host) ==
    IF i > Len(stmts) THEN Normal(NoneValue, FALSE, loc, host)
    ELSE
    LET s == stmts[i] IN
    IF s.kind = "FunctionDef"
    THEN exec(stmts, i + 1, Bind(loc, s.id, FunctionObject(s.id, s.body)), env, host)
    ELSE IF s.kind = "ClassDef"
    THEN IF "__build_class__" \notin DOMAIN env.builtins
         THEN Throws("NameError", "__build_class__", loc, host)
         ELSE LET c == exec(s.body, 1, EmptyMap, env, host)
              IN  IF ~c.ok THEN Throws(c.exc, c.name, loc, c.host)
                  ELSE exec(stmts, i + 1, Bind(loc, s.id, ClassObject(s.id, s.body)),
                            env, c.host)
    ELSE IF s.kind = "Assign"
    THEN LET v == eval(s.body[2], loc, env, host)
             target == s.body[1]
         IN  IF ~v.ok THEN v
             ELSE IF target.kind = "Name"
             THEN exec(stmts, i + 1, Bind(loc, target.id, v.value), env, v.host)
             ELSE IF target.kind = "Attribute"
             THEN LET t == eval(target.body[1], loc, env, v.host)
                  IN  IF ~t.ok THEN t
                      ELSE IF t.value.v = "module"
                      THEN exec(stmts, i + 1, loc, env,
                                Bind(t.host, <<t.value.id, target.id>>, v.value))
                      ELSE Throws("AttributeError", target.id, loc, t.host)
             ELSE Throws("TypeError", target.kind, loc, v.host)
    ELSE IF s.kind = "Expr"
    THEN LET v == eval(s.body[1], loc, env, host)
         IN  IF ~v.ok THEN v ELSE exec(stmts, i + 1, loc, env, v.host)
    ELSE IF s.kind = "Return"
    THEN LET v == eval(s.body[1], loc, env, host)
         IN  IF ~v.ok THEN v ELSE Normal(v.value, TRUE, loc, v.host)
    ELSE IF s.kind = "Import"
    THEN LET failed == {k \in 1..Len(s.names) : import_name(s.names[k], 0, env) # ""}
         IN  IF failed # {}
             THEN Throws(import_name(s.names[CHOOSE k \in failed : \A j \in failed : k <= j],
                                     0, env), "", loc, host)
             ELSE exec(stmts, i + 1,
                       Merged(loc, [n \in {s.names[k][1] : k \in 1..Len(s.names)}
                                       |-> ModuleObject(n)]),
                       env, host)
    ELSE IF s.kind = "ImportFrom"
    THEN LET err == import_name(IF s.names = <<>> THEN <<>> ELSE s.names[1], s.level, env)
         IN  IF err # "" THEN Throws(err, "", loc, host)
             ELSE exec(stmts, i + 1, Bind(loc, s.id, Builtin(s.id)), env, host)
    ELSE Throws("TypeError", s.kind, loc, host)

\* exec_globals before injected_globals are added.
base_globals ==
    [n \in {"__builtins__", "__name__", "pd", "np"} |->
        IF n = "__builtins__" THEN Value("mappingproxy", "safe_builtins", <<>>)
        ELSE IF n = "__name__" THEN Literal("__sandbox__")
        ELSE IF n = "pd" THEN ModuleObject("pandas")
        ELSE ModuleObject("numpy")]

Env(self, globals, builtins, import_needs_dict) ==
    [self |-> self, globals |-> globals, builtins |-> builtins,
     import_needs_dict |-> import_needs_dict]

\* execute_compiled: the namespace returned (with the mappings it was merged
\* from), or the exception raised by the module body.
execute_compiled(self, compiled, injected_globals, import_needs_dict, host) ==
    LET safe_builtins == build_safe_builtins(self)
        exec_globals  == Merged(base_globals, injected_globals)
        exec_locals   == EmptyMap
        env == Env(self, exec_globals, safe_builtins, import_needs_dict)
        r   == exec(compiled.tree.body, 1, exec_locals, env, host)
    IN  [ok |-> r.ok, exc |-> r.exc, name |-> r.name,
         ns |-> IF r.ok THEN Merged(exec_globals, r.loc) ELSE EmptyMap,
         exec_globals |-> exec_globals, exec_locals |-> r.loc,
         safe_builtins |-> safe_builtins, host |-> r.host]


\* What the caller of the executor holds and what outlives its calls:
\*   self       the executor (its four sets)
\*   import_needs_dict   whether the interpreter's import statement needs a
\*              dict as builtins
\*   pc         "new", then per source "checked", "executed", "called"
\*   code       the source last given to check_and_compile
\*   compiled   what check_and_compile returned or raised for it
\*   run        what execute_compiled returned or raised for it
\*   called     what the call of the entry point returned or raised
\*   host       attributes set on the host's module objects (they are the
\*              same objects in every execution)
\*   cycles     number of check_and_compile calls so far
\*   earlier    names bound at module level by the sources executed before
\*              the present one
NotYet == [ok |-> FALSE, exc |-> "not yet"]

NewExecutor(allowed_modules, import_needs_dict) ==
    [self |-> SafePythonCodeExecutor(allowed_modules, NotGiven, NotGiven, NotGiven),
     import_needs_dict |-> import_needs_dict,
     pc |-> "new", code |-> Blank,
     compiled |-> NotYet, run |-> NotYet, called |-> NotYet,
     host |-> EmptyMap, cycles |-> 0, earlier |-> {}]

MaxCycles == 2

\* check_and_compile(code), as _compile_and_get_run and the tests call it.
CheckAndCompile(code) ==
    /\ ex.cycles < MaxCycles
    /\ ex' = [ex EXCEPT !.pc = "checked",
                        !.code = code,
                        !.compiled = check_and_compile(ex.self, code),
                        !.run = NotYet,
                        !.called = NotYet,
                        !.cycles = @ + 1,
                        !.earlier = IF ex.run.ok THEN @ \cup DOMAIN ex.run.exec_locals
                                    ELSE @]
    /\ UNCHANGED <<engine_vars, queries, guardrail, flow>>

\* execute_compiled(compiled) on what check_and_compile returned.
ExecuteCompiled ==
    /\ ex.pc = "checked"
    /\ ex.compiled.ok
    /\ LET r == execute_compiled(ex.self, ex.compiled, EmptyMap,
                                 ex.import_needs_dict, ex.host)
       IN  ex' = [ex EXCEPT !.pc = "executed",
                            !.run = [r EXCEPT !.host = EmptyMap],
                            !.host = r.host]
    /\ UNCHANGED <<engine_vars, queries, guardrail, flow>>

\* ns[entry](...): the call of a callable of the returned namespace.
CallEntry(entry) ==
    /\ ex.pc = "executed"
    /\ ex.run.ok
    /\ entry \in DOMAIN ex.run.ns
    /\ ex.run.ns[entry].v = "function"
    /\ LET env == Env(ex.self, ex.run.exec_globals, ex.run.safe_builtins,
                      ex.import_needs_dict)
           r   == exec(ex.run.ns[entry].body, 1, EmptyMap, env, ex.host)
       IN  ex' = [ex EXCEPT !.pc = "called",
                            !.called = [ok |-> r.ok, exc |-> r.exc, name |-> r.name,
                                        value |-> r.value],
                            !.host = r.host]
    /\ UNCHANGED <<engine_vars, queries, guardrail, flow>>


\* ------------------------------------------------------------------------
\* Strategy sources and what a strategy returns.
\*
\* A source is described by what loading it does: code.toplevel is what its
\* module body does when executed ("ok", or the exception class it raises),
\* code.run is what the name run is bound to once it has been executed:
\* nothing, a value that is not callable, or a callable with the kinds of
\* its parameters as inspect.signature lists them.
\* An exception is named by the builtin class it derives from: "Exception",
\* or "BaseException" for SystemExit, KeyboardInterrupt and GeneratorExit,
\* which `except Exception` does not catch.
\* ------------------------------------------------------------------------
Code(toplevel, run) == [toplevel |-> toplevel, run |-> run]

\* ns.get("run") is None, is some value that is not callable, or is a
\* callable with these parameter kinds.
NoRun == [kind |-> "missing", params |-> <<>>]
NotCallable == [kind |-> "not callable", params |-> <<>>]
Callable(params) == [kind |-> "callable", params |-> params]

\* def run(df, holdings)
RunDfHoldings == Callable(<<"POSITIONAL_OR_KEYWORD", "POSITIONAL_OR_KEYWORD">>)

except_Exception(exc) == exc = "Exception"

\* _compile_and_get_run without the check of len(params).
compile_and_get_run_any_arity(code) ==
    IF code.toplevel # "ok"
    THEN [ok |-> FALSE, exc |-> code.toplevel, error |-> "raised by the source"]
    ELSE IF code.run.kind # "callable"
    THEN [ok |-> FALSE, exc |-> "Exception",
          error |-> "trading_strategy_code must define a top-level function named run(df, holdings)."]
    ELSE IF \E i \in 1..Len(code.run.params) :
                code.run.params[i] \notin {"POSITIONAL_ONLY", "POSITIONAL_OR_KEYWORD"}
    THEN [ok |-> FALSE, exc |-> "Exception",
          error |-> "run(df, holdings) must take both arguments positionally."]
    ELSE [ok |-> TRUE]

\* _compile_and_get_run: the runner, or the exception that leaves it.
compile_and_get_run(code) ==
    IF code.toplevel # "ok"
    THEN [ok |-> FALSE, exc |-> code.toplevel, error |-> "raised by the source"]
    ELSE IF code.run.kind # "callable"
    THEN [ok |-> FALSE, exc |-> "Exception",
          error |-> "trading_strategy_code must define a top-level function named run(df, holdings)."]
    ELSE IF Len(code.run.params) # 2
    THEN [ok |-> FALSE, exc |-> "Exception",
          error |-> "run must accept exactly 2 arguments (df, holdings)"]
    ELSE IF \E i \in 1..Len(code.run.params) :
                code.run.params[i] \notin {"POSITIONAL_ONLY", "POSITIONAL_OR_KEYWORD"}
    THEN [ok |-> FALSE, exc |-> "Exception",
          error |-> "run(df, holdings) must take both arguments positionally."]
    ELSE [ok |-> TRUE]

\* Sequences over S of length at most n.
SeqsUpTo(S, n) == UNION {[1..k -> S] : k \in 0..n}

\* scribble: before it returns or raises, the call overwrites the df and
\* empties the holdings list it was given.
Outcome(kind, exc, raws, scribble) ==
    [kind |-> kind, exc |-> exc, orders |-> raws, scribble |-> scribble]

\* What one call of run(df, holdings) can do: raise, return None, return
\* something that is no list, or return a list of at most n raw orders.
\* Which of them happens is not fixed by the arguments of the call: the
\* executor hands the source numpy (np.random) and lets it assign attributes
\* of the modules it reaches, which outlive the call and the run.  Every
\* call is taken to scribble (a call that leaves its arguments alone does
\* less), but for one that returns None without touching them.
Outcomes(RawOrders, n) ==
    {Outcome("raise", e, <<>>, TRUE) : e \in {"Exception", "BaseException"}}
    \cup {Outcome("none", "", <<>>, w) : w \in BOOLEAN}
    \cup {Outcome("nonlist", "", <<>>, TRUE)}
    \cup {Outcome("list", "", raws, TRUE) : raws \in SeqsUpTo(RawOrders, n)}

\* ------------------------------------------------------------------------
\* test_strategy.
\* ------------------------------------------------------------------------
ErrorString(category, detail) == [kind |-> "str", category |-> category, detail |-> detail]
Result(result) == [kind |-> "BacktestResult", result |-> result]
Raised(exc) == [kind |-> "raised", exc |-> exc]
\* No call has ended yet, or one is under way.
Running == [kind |-> "none"]

NoArgs == [none |-> TRUE]

Args(start_date, end_date, code) ==
    [start_date |-> start_date, end_date |-> end_date, trading_strategy_code |-> code]

\* Bounds of the model.
MaxRuns == 2
MaxOrders == 3
MaxLedgerOrders == 3

\* The guardrail between calls, before its first one.
NoGuardrailCall == [pending |-> FALSE, code |-> None, out |-> None]

\* No flow has been kicked off.
NoFlow == [pc |-> "new", attempts_log |-> <<>>, best |-> None, finished |-> 0, kickoffs |-> 0]

\* History of the current call, kept for the properties below:
\*   reset     _reset_portfolio has run on this backtester
\*   prev      the outline of what the previous call returned, when it had
\*             the same arguments as the current one
\*   issued    ids handed out by _new_holding_id since the last reset
\*   call      the day, df and holdings of the last call of run in this call
\*   outcome   how that call of run ended (its kind and the exception raised)
\*   raw       the list run returned on that day
\*   today     the validated orders of that day
\*   start     the ledger when that day's orders began to be applied
\*   applied   how many of today's orders have been applied
\*   ops       the last orders applied in a row, at most two, with no
\*             stop-loss / take-profit sale after them
\*   sales     the sales of the last stop-loss / take-profit enforcement
Outline(r) == [kind |-> r.kind, category |-> IF r.kind = "str" THEN r.category ELSE ""]

InitHist ==
    [reset |-> FALSE, prev |-> None, issued |-> <<>>, call |-> None,
     outcome |-> None,
     raw |-> <<>>, today |-> <<>>, start |-> None, applied |-> 0, ops |-> <<>>, sales |-> <<>>]

Init ==
    /\ df \in Tables
    /\ holdings = <<>>
    /\ next_id = 1
    /\ pc = "idle"
    /\ args = NoArgs
    /\ dates = <<>>
    /\ di = 0
    /\ orders = <<>>
    /\ ret = Running
    /\ runs = 0
    /\ hist = InitHist
    /\ ex = NewExecutor(NotGiven, FALSE)
    /\ queries = <<>>
    /\ guardrail = NoGuardrailCall
    /\ flow = NoFlow

HasBtc(hs) == \E i \in 1..Len(hs) : hs[i].asset = "BTC"

\* The warm-up view taken to be the whole table.
warmup_view_whole_table(table, trading_dates) == table

\* The warm-up view taken as of the first trading day itself.
warmup_view_same_day(table, trading_dates) ==
    get_df_until_date(table, to_timestamp(trading_dates[1]))

\* warmup_df: the rows visible one day before the first trading day.
warmup_view(table, trading_dates) ==
    LET first_day == to_timestamp(trading_dates[1])
        as_of_first == first_day - TicksPerDay
    IN  get_df_until_date(table, as_of_first)

\* test_strategy up to the day loop: date resolution, warm-up check, reset,
\* strategy loading.
test_strategy(a) ==
    /\ pc = "idle"
    /\ runs < MaxRuns
    /\ runs' = runs + 1
    /\ args' = a
    /\ orders' = <<>>
    /\ df' = df
    /\ UNCHANGED <<ex, queries>>
    /\ LET td == get_trading_dates(df, a.start_date, a.end_date)
           h0 == [hist EXCEPT !.prev = IF a = args THEN Outline(ret) ELSE None,
                              !.call = None, !.outcome = None, !.raw = <<>>, !.today = <<>>, !.start = None,
                              !.applied = 0, !.ops = <<>>, !.sales = <<>>]
       IN  IF ~td.ok
           THEN /\ ret' = ErrorString("Date range validation error", td.error)
                /\ pc' = "idle"
                /\ hist' = h0
                /\ UNCHANGED <<holdings, next_id, dates, di>>
           ELSE
           LET warmup_df == warmup_view(df, td.dates)
           IN  IF warmup_df = <<>>
               THEN /\ ret' = ErrorString("Date range validation error",
                                          "start_date requires at least 1 prior candle (warm-up)")
                    /\ pc' = "idle"
                    /\ hist' = h0
                    /\ dates' = td.dates
                    /\ UNCHANGED <<holdings, next_id, di>>
               ELSE
               LET fresh == reset_portfolio
                   runner == compile_and_get_run(a.trading_strategy_code)
               IN  /\ holdings' = fresh.holdings
                   /\ next_id' = fresh.next_id
                   /\ hist' = [h0 EXCEPT !.reset = TRUE, !.issued = <<>>]
                   /\ dates' = td.dates
                   /\ IF runner.ok
                      THEN /\ pc' = "strategy"
                           /\ di' = 1
                           /\ ret' = Running
                      ELSE /\ pc' = "idle"
                           /\ di' = di
                           /\ ret' = IF except_Exception(runner.exc)
                                     THEN ErrorString("Strategy code validation error", runner.error)
                                     ELSE Raised(runner.exc)

\* A call of test_strategy by a caller other than the guardrail.
StartRun(a) ==
    /\ test_strategy(a)
    /\ UNCHANGED <<guardrail, flow>>

\* One day of the loop up to the application of the orders: the view, the
\* payload, the call of run (with outcome out) and the validation of what
\* it returned.
CallStrategy(out) ==
    /\ pc = "strategy"
    /\ LET day == to_timestamp(dates[di])
           as_of == day - TicksPerDay
           day_df == get_df_until_date(df, as_of)
       IN  IF day_df = <<>>
           THEN /\ ret' = ErrorString("Date range validation error", "not enough history (warm-up)")
                /\ pc' = "idle"
                /\ UNCHANGED <<df, holdings, next_id, orders, hist>>
           ELSE
           LET last_known_btc == last_known_close(day_df)
               holdings_payload == strategy_holdings_payload(holdings, last_known_btc)
               given == runner_arguments(df, as_of, holdings, last_known_btc)
               called == [hist EXCEPT !.call = [day |-> day, df |-> day_df,
                                                holdings |-> holdings_payload],
                                      !.outcome = [kind |-> out.kind, exc |-> out.exc,
                                                   scribble |-> out.scribble],
                                      !.raw = out.orders, !.today = <<>>,
                                      !.start = [holdings |-> holdings, next_id |-> next_id],
                                      !.applied = 0]
               raw_orders == IF out.kind = "none" THEN <<>> ELSE out.orders
               validated == OrdersAdapter_validate(raw_orders)
           IN  /\ df' = written_table(df, given.df, out.scribble)
               /\ holdings' = written_ledger(holdings, given.holdings, out.scribble)
               /\ next_id' = next_id
               /\ IF out.kind = "raise"
                  THEN /\ ret' = IF except_Exception(out.exc)
                                 THEN ErrorString("Strategy execution error", "stack trace")
                                 ELSE Raised(out.exc)
                       /\ pc' = "idle"
                       /\ orders' = <<>>
                       /\ hist' = called
                  ELSE IF out.kind = "nonlist"
                  THEN /\ ret' = ErrorString("Order error", "run(df, holdings) must return a list of orders (or an empty list).")
                       /\ pc' = "idle"
                       /\ orders' = <<>>
                       /\ hist' = called
                  ELSE IF ~validated.ok
                  THEN /\ ret' = ErrorString("Order error", "invalid order payload(s)")
                       /\ pc' = "idle"
                       /\ orders' = <<>>
                       /\ hist' = called
                  ELSE /\ ret' = ret
                       /\ pc' = IF validated.orders = <<>> THEN "sltp" ELSE "apply"
                       /\ orders' = validated.orders
                       /\ hist' = [called EXCEPT !.today = validated.orders]
    /\ UNCHANGED <<args, dates, di, runs, ex, queries, guardrail, flow>>

\* HistoricalDailyPricesHelper.executeCode: run_on_data is called with
\* _with_date_column(self.df.copy()); what it returns goes to the caller.
ExecuteCode(scribble) ==
    /\ pc = "idle"
    /\ df' = written_table(df, with_date_column(frame_copy(Handed(df, "prices.df"))), scribble)
    /\ UNCHANGED <<holdings, next_id, pc, args, dates, di, orders, ret, runs, hist, ex, queries, guardrail, flow>>

\* ------------------------------------------------------------------------
\* ValidateBacktesterGuardrail.
\* ------------------------------------------------------------------------
\* The backtest window: the day after the dataset's first day, to its last
\* (the dataset constants taken from the table).
START_DATE == TableA[1].Date + TicksPerDay
END_DATE == TableA[Len(TableA)].Date

\* A model's implementation text: the code, inside a ```python fence or bare.
Implementation(fenced, code) == [fenced |-> fenced, code |-> code]

\* strip_llm_formatting: the text between ```python and the next ```, or the
\* text itself when it has no such fence.
strip_llm_formatting(text) == text.code

ImplementationTaskOutput(implementation) ==
    [type |-> "ImplementationTaskOutput", implementation |-> implementation]

TaskOutput(pydantic) == [pydantic |-> pydantic]

\* The pair a guardrail returns.
Pair(ok, value) == [ok |-> ok, value |-> value]

\* _validate_backtest_on_strategy after test_strategy has ended with result:
\* (False, result) for a string, (True, code) otherwise; an exception that
\* escaped test_strategy escapes the guardrail.
validate_backtest_result(code, result) ==
    IF result.kind = "str" THEN Pair(FALSE, result)
    ELSE IF result.kind = "raised" THEN result
    ELSE Pair(TRUE, code)

\* _validate_backtest_on_strategy up to its call of test_strategy.
GuardrailCall(task_output) ==
    /\ pc = "idle"
    /\ ~guardrail.pending
    /\ LET model == task_output.pydantic
       IN  IF model = None
           THEN /\ guardrail' = [pending |-> FALSE, code |-> None,
                                 out |-> Pair(FALSE, "Task output could not be parsed into the expected Pydantic model.")]
                /\ UNCHANGED <<engine_vars, ex, queries, flow>>
           ELSE IF model.type # "ImplementationTaskOutput"
           THEN /\ guardrail' = [pending |-> FALSE, code |-> None,
                                 out |-> Pair(FALSE, "Unexpected output type")]
                /\ UNCHANGED <<engine_vars, ex, queries, flow>>
           ELSE LET code == strip_llm_formatting(model.implementation)
                IN  /\ test_strategy(Args(START_DATE, END_DATE, code))
                    /\ guardrail' = [pending |-> TRUE, code |-> code, out |-> None]
                    /\ flow' = flow

\* The rest of _validate_backtest_on_strategy, once test_strategy has ended.
GuardrailReturn ==
    /\ guardrail.pending
    /\ pc = "idle"
    /\ guardrail' = [guardrail EXCEPT !.pending = FALSE,
                                      !.out = validate_backtest_result(guardrail.code, ret)]
    /\ UNCHANGED <<engine_vars, ex, queries, flow>>

\* ------------------------------------------------------------------------
\* TradingStrategyCreationFlow (crewai_trading_strategy/main.py).
\* ------------------------------------------------------------------------
MAX_ATTEMPTS == 3

TradingStrategyAttempt(outline, implementation, result) ==
    [strategy_outline |-> outline, strategy_implementation |-> implementation,
     backtest_result |-> result]

\* What one attempt gets from outside the flow: whether the crew's kickoff
\* raises, the outline and the implementation text of its tasks, and what
\* test_strategy ends with for that implementation (the flow reads nothing
\* else of the backtester).
CrewOutput(raises, outline, implementation, result) ==
    [raises |-> raises, outline |-> outline, implementation |-> implementation,
     result |-> result]

\* handle_crew_output: the attempt built from the tasks' outputs and the
\* backtest of the stripped implementation.  TradingStrategyAttempt takes a
\* BacktestResult only: a string returned by test_strategy fails its
\* validation, and an exception that left test_strategy goes on.
handle_crew_output(crew_output) ==
    LET strategy_implementation == strip_llm_formatting(crew_output.implementation)
        backtest_result == crew_output.result
    IN  IF backtest_result.kind = "BacktestResult"
        THEN [ok |-> TRUE,
              attempt |-> TradingStrategyAttempt(crew_output.outline, strategy_implementation,
                                                 backtest_result.result)]
        ELSE [ok |-> FALSE]

\* The routing of main_loop breaking only once the log holds more than
\* MAX_ATTEMPTS attempts.
main_loop_route_after_max(attempts_log) ==
    IF Len(attempts_log) > MAX_ATTEMPTS THEN "break" ELSE "continue"

\* What main_loop returns to the router after it has logged the attempt.
main_loop_route(attempts_log) ==
    IF Len(attempts_log) >= MAX_ATTEMPTS THEN "break" ELSE "continue"

\* a > b for two revenue_percent values (fractions over the same denominator).
RevenueGt(a, b) == Gt(a.num, b.num)

\* max(attempts_log, key=revenue_percent) over the first n attempts: a later
\* attempt replaces the best so far only when its key is greater.
RECURSIVE max_attempt(_, _)
max_attempt(attempts_log, n) ==
    IF n = 1 THEN attempts_log[1]
    ELSE LET best == max_attempt(attempts_log, n - 1)
         IN  IF RevenueGt(attempts_log[n].backtest_result.revenue_percent,
                          best.backtest_result.revenue_percent)
             THEN attempts_log[n]
             ELSE best

MaxKickoffs == 2

\* kickoff(): a new flow, whose start method empties the log; the router
\* listening on "start" runs main_loop next.
Kickoff ==
    /\ flow.pc \in {"new", "done", "failed"}
    /\ flow.kickoffs < MaxKickoffs
    /\ flow' = [pc |-> "main_loop", attempts_log |-> <<>>, best |-> None, finished |-> 0,
                kickoffs |-> flow.kickoffs + 1]
    /\ UNCHANGED <<engine_vars, ex, queries, guardrail>>

\* main_loop: the crew's kickoff, handle_crew_output, the append to the log
\* and the routing: "continue" runs main_loop again, "break" runs finish.
\* An exception ends the flow.
MainLoop(crew_output) ==
    /\ flow.pc = "main_loop"
    /\ IF crew_output.raises
       THEN flow' = [flow EXCEPT !.pc = "failed"]
       ELSE LET attempt_log == handle_crew_output(crew_output)
            IN  IF ~attempt_log.ok
                THEN flow' = [flow EXCEPT !.pc = "failed"]
                ELSE LET attempts_log == Append(flow.attempts_log, attempt_log.attempt)
                     IN  flow' = [flow EXCEPT
                                     !.attempts_log = attempts_log,
                                     !.pc = IF main_loop_route(attempts_log) = "break"
                                            THEN "finish" ELSE "main_loop"]
    /\ UNCHANGED <<engine_vars, ex, queries, guardrail>>

\* finish: the best attempt is selected and written out.
Finish ==
    /\ flow.pc = "finish"
    /\ flow' = [flow EXCEPT !.best = max_attempt(flow.attempts_log, Len(flow.attempts_log)),
                            !.finished = @ + 1,
                            !.pc = "done"]
    /\ UNCHANGED <<engine_vars, ex, queries, guardrail>>

UsdAmount(hs) == hs[get_usd_holding(hs)].amount

LastTwo(s) == IF Len(s) > 2 THEN SubSeq(s, Len(s) - 1, Len(s)) ELSE s

\* What is remembered of an applied order.
Op(order, price, before, after) ==
    [action |-> order.action,
     holding_id |-> IF order.action = "BUY" THEN after[Len(after)].holding_id
                    ELSE order.holding_id,
     amount |-> order.amount, price |-> price,
     usd_before |-> UsdAmount(before), usd_after |-> UsdAmount(after)]

\* The execution price taken from the day's Close.
execution_price_close(day_row) == row_close(day_row)

\* open_price = self._row_open(day_row): the price the day's orders execute at.
execution_price(day_row) == row_open(day_row)

\* Enforcement entered as soon as one order of the day has been applied.
phase_after_order_enforces_at_once(rest) == "sltp"

\* Where test_strategy stands once an order of the day has been applied:
\* _apply_orders loops over the rest of the list, and only when the list is
\* through does _auto_close_on_thresholds run.
phase_after_order(rest) == IF rest = <<>> THEN "sltp" ELSE "apply"

\* One iteration of the loop of _apply_orders, at the day's Open; an exception
\* ends test_strategy with "Order error: ...".
ApplyOrder ==
    /\ pc = "apply"
    /\ orders # <<>>
    /\ LET day_row == row_at(df, to_timestamp(dates[di]))
           open_price == execution_price(day_row)
           o == Head(orders)
           r == apply_order(holdings, next_id, o, open_price)
       IN  /\ holdings' = r.holdings
           /\ next_id' = r.next_id
           /\ IF r.ok
              THEN /\ orders' = Tail(orders)
                   /\ pc' = phase_after_order(Tail(orders))
                   /\ ret' = ret
                   /\ hist' = [hist EXCEPT
                         !.applied = @ + 1,
                         !.issued = IF o.action = "BUY"
                                    THEN Append(@, r.holdings[Len(r.holdings)].holding_id)
                                    ELSE @,
                         !.ops = LastTwo(Append(@, Op(o, open_price, holdings, r.holdings)))]
              ELSE /\ orders' = <<>>
                   /\ pc' = "idle"
                   /\ ret' = ErrorString("Order error", r.error)
                   /\ hist' = hist
    /\ UNCHANGED <<df, args, dates, di, runs, ex, queries, guardrail, flow>>

\* _auto_close_on_thresholds for the day, then the next day of the loop or,
\* after the last day, the final valuation at its Close.
AutoClose ==
    /\ pc = "sltp"
    /\ LET day_row == row_at(df, to_timestamp(dates[di]))
           r == auto_close_on_thresholds(holdings, next_id, day_row)
           last_day == to_timestamp(dates[Len(dates)])
           close_price == row_close(row_at(df, last_day))
       IN  /\ holdings' = r.holdings
           /\ next_id' = r.next_id
           /\ hist' = [hist EXCEPT !.sales = r.sales,
                                   !.ops = IF r.sales = <<>> THEN @ ELSE <<>>]
           /\ IF ~r.ok
              THEN /\ ret' = ErrorString("Order error", r.error)
                   /\ pc' = "idle"
                   /\ di' = di
              ELSE IF di < Len(dates)
              THEN /\ ret' = ret
                   /\ pc' = "strategy"
                   /\ di' = di + 1
              ELSE /\ ret' = Result(BacktestResult(r.holdings, close_price))
                   /\ pc' = "idle"
                   /\ di' = di
    /\ UNCHANGED <<df, args, dates, orders, runs, ex, queries, guardrail, flow>>

\* ------------------------------------------------------------------------
\* Inputs.
\* ------------------------------------------------------------------------
BuyRaw(amount, sl, tp) ==
    [action |-> "BUY", asset |-> "BTC", amount |-> amount, stop_loss |-> sl, take_profit |-> tp]

SellRaw(id, amount) == [action |-> "SELL", holding_id |-> id, amount |-> amount]

\* Orders of the engine specification: a buy with both thresholds, a sell of
\* the first holding, a buy of amount 0 (mappings that fail validation are
\* those of the schema specification).
EngineOrders ==
    { BuyRaw(F(1, 0), F(98, 0), F(110, 0)),
      SellRaw("H1", F(1, 0)),
      [action |-> "BUY", asset |-> "BTC", amount |-> F(0, 0)] }

\* Orders of the ledger specification: amounts of 1, of 2^-40 (below 1e-12),
\* of 2^-39 (above it, with a stop_loss of 0) and of 5000 + 2^-40, with
\* thresholds or without.
LedgerOrders ==
    { BuyRaw(F(1, 0), F(98, 0), F(110, 0)),
      BuyRaw(F(0, 1), F(98, 0), F(110, 0)),
      BuyRaw(F(0, 2), F(0, 0), None),
      [action |-> "BUY", asset |-> "BTC", amount |-> F(5000, 1)],
      SellRaw("H1", F(1, 0)),
      SellRaw("H2", F(0, 1)) }

\* Sources: def run(df, holdings); no run; run = 1; def run(df);
\* def run(df, *, holdings); def run(df, holdings, *args); and two whose
\* module body raises.
Sources ==
    { Code("ok", RunDfHoldings),
      Code("ok", NoRun),
      Code("ok", NotCallable),
      Code("ok", Callable(<<"POSITIONAL_OR_KEYWORD">>)),
      Code("ok", Callable(<<"POSITIONAL_OR_KEYWORD", "KEYWORD_ONLY">>)),
      Code("ok", Callable(<<"POSITIONAL_OR_KEYWORD", "POSITIONAL_OR_KEYWORD", "VAR_POSITIONAL">>)),
      Code("Exception", RunDfHoldings),
      Code("BaseException", RunDfHoldings) }

\* Ranges: valid ones of one and two trading days (over the gap, and two
\* days in a row on which a bought holding lasts the first), and one of each kind the
\* date checks refuse (warm-up, bounds, start after end, no rows).
EngineRanges ==
    { <<Day(2), Day(2)>>, <<Day(2), Day(4)>>, <<Day(5), Day(5)>>, <<Day(4), Day(5)>>,
      <<Day(1), Day(1)>>, <<Day(0), Day(2)>>, <<Day(4), Day(2)>>, <<Day(3), Day(3)>> }

\* Ranges of the ledger specification: one day where both thresholds of the
\* orders trigger, and the day at a price of 2.
LedgerRanges == { <<Day(2), Day(2)>>, <<Day(6), Day(6)>> }

EngineArgs == {Args(r[1], r[2], c) : r \in EngineRanges, c \in Sources}

LedgerArgs == {Args(r[1], r[2], Code("ok", RunDfHoldings)) : r \in LedgerRanges}

\* Sources given to the executor: a non-string, a blank string, a string with
\* a syntax error, and module bodies (each described by the line above it).
ExecutorSources ==
    { NotAString, Blank, Malformed,
      \* def helper_function(): return 42 / def run_on_data(df): return helper_function()
      Source(<< FunctionDef("helper_function", <<Return(Num("42"))>>),
          FunctionDef("run_on_data", <<Return(Call(Name("helper_function")))>>) >>),
      \* class Adder with a method add / def run_on_data(df): return Adder().add()
      Source(<< ClassDef("Adder", <<FunctionDef("add", <<Return(Num("15"))>>)>>),
          FunctionDef("run_on_data",
                      <<Return(Call(Attribute(Call(Name("Adder")), "add")))>>) >>),
      \* def helper / class Model whose method score calls helper() / def run_on_data(df): return Model().score()
      Source(<< FunctionDef("helper", <<Return(Num("40"))>>),
          ClassDef("Model", <<FunctionDef("score", <<Return(Call(Name("helper")))>>)>>),
          FunctionDef("run_on_data",
                      <<Return(Call(Attribute(Call(Name("Model")), "score")))>>) >>),
      \* def get_order / def run(df, holdings): return get_order()
      Source(<< FunctionDef("get_order", <<Return(Num("[BUY]"))>>),
          FunctionDef("run", <<Return(Call(Name("get_order")))>>) >>),
      \* def run_on_data(df): return 123
      Source(<< FunctionDef("run_on_data", <<Return(Num("123"))>>) >>),
      \* def run_on_data(df): return np.sum()
      Source(<< FunctionDef("run_on_data",
          <<Return(Call(Attribute(Name("np"), "sum")))>>) >>),
      \* class Adder / a = Adder().add() at module level
      Source(<< ClassDef("Adder", <<FunctionDef("add", <<Return(Num("15"))>>)>>),
          Assign(Name("a"), Call(Attribute(Call(Name("Adder")), "add"))) >>),
      \* def helper / class Model: y = helper()
      Source(<< FunctionDef("helper", <<Return(Num("40"))>>),
          ClassDef("Model", <<Assign(Name("y"), Call(Name("helper")))>>) >>),
      \* import os / def run_on_data(df)
      Source(<< Import(<< <<"os">> >>),
          FunctionDef("run_on_data", <<Return(Num("1"))>>) >>),
      \* import math, os
      Source(<< Import(<< <<"math">>, <<"os">> >>) >>),
      \* import os.path
      Source(<< Import(<< <<"os", "path">> >>) >>),
      \* def f(): def g(): import subprocess
      Source(<< FunctionDef("f", << FunctionDef("g", <<Import(<< <<"subprocess">> >>)>>) >>) >>),
      \* from os import path
      Source(<< ImportFrom(<<"os">>, 0, "path") >>),
      \* import math / x = math.pi / def run_on_data(df): import re; return math.pi
      Source(<< Import(<< <<"math">> >>),
          Assign(Name("x"), Attribute(Name("math"), "pi")),
          FunctionDef("run_on_data",
                      << Import(<< <<"re">> >>),
                         Return(Attribute(Name("math"), "pi")) >>) >>),
      \* import numpy.linalg
      Source(<< Import(<< <<"numpy", "linalg">> >>) >>),
      \* from numpy.linalg import norm
      Source(<< ImportFrom(<<"numpy", "linalg">>, 0, "norm") >>),
      \* from . import x
      Source(<< ImportFrom(NoModule, 1, "x") >>),
      \* def run_on_data(df): from .math import sqrt
      Source(<< FunctionDef("run_on_data", <<ImportFrom(<<"math">>, 1, "sqrt")>>) >>),
      \* from ..os import x
      Source(<< ImportFrom(<<"os">>, 2, "x") >>),
      \* def run_on_data(df): f = open(); return 1
      Source(<< FunctionDef("run_on_data",
          << Assign(Name("f"), Call(Name("open"))),
             Return(Num("1")) >>) >>),
      \* eval = 3
      Source(<< Assign(Name("eval"), Num("3")) >>),
      \* class K: def m(self): return (1).__class__.__mro__
      Source(<< ClassDef("K", << FunctionDef("m",
          <<Return(Attribute(Attribute(Num("1"), "__class__"), "__mro__"))>>) >>) >>),
      \* def run_on_data(df): return np.open
      Source(<< FunctionDef("run_on_data", <<Return(Attribute(Name("np"), "open"))>>) >>),
      \* Z = 5 / np.leak = Z / def run_on_data(df): return 1
      Source(<< Assign(Name("Z"), Num("5")),
          Assign(Attribute(Name("np"), "leak"), Name("Z")),
          FunctionDef("run_on_data", <<Return(Num("1"))>>) >>),
      \* def run_on_data(df): return np.leak
      Source(<< FunctionDef("run_on_data", <<Return(Attribute(Name("np"), "leak"))>>) >>),
      \* q = Z
      Source(<< Assign(Name("q"), Name("Z")) >>) }

\* allowed_modules arguments of the constructor: left out, empty, one module.
AllowedModulesArgs == { NotGiven, Given({}), Given({<<"numpy">>}) }

EntryPoints == { "run_on_data", "run" }

\* ------------------------------------------------------------------------
\* Specifications.
\* ------------------------------------------------------------------------
NextOver(ArgSet, OutcomeSet) ==
    \/ \E a \in ArgSet : StartRun(a)
    \/ \E out \in OutcomeSet : CallStrategy(out)
    \/ \E scribble \in BOOLEAN : ExecuteCode(scribble)
    \/ ApplyOrder
    \/ AutoClose

EngineOutcomes == Outcomes(EngineOrders, MaxOrders)

Next == NextOver(EngineArgs, EngineOutcomes)

Spec == Init /\ [][Next]_vars

LedgerOutcomes == Outcomes(LedgerOrders, MaxLedgerOrders)

NextLedger == NextOver(LedgerArgs, LedgerOutcomes)

SpecLedger == Init /\ [][NextLedger]_vars

InitExecutor ==
    /\ df \in Tables
    /\ holdings = <<>>
    /\ next_id = 1
    /\ pc = "idle"
    /\ args = NoArgs
    /\ dates = <<>>
    /\ di = 0
    /\ orders = <<>>
    /\ ret = Running
    /\ runs = 0
    /\ hist = InitHist
    /\ ex \in {NewExecutor(a, b) : a \in AllowedModulesArgs, b \in BOOLEAN}
    /\ queries = <<>>
    /\ guardrail = NoGuardrailCall
    /\ flow = NoFlow

NextExecutor ==
    \/ \E code \in ExecutorSources : CheckAndCompile(code)
    \/ ExecuteCompiled
    \/ \E entry \in EntryPoints : CallEntry(entry)

SpecExecutor == InitExecutor /\ [][NextExecutor]_vars

\* Orders of the schema specification: a plain buy, a sell that also carries
\* a stop_loss, a buy with a key no schema has, and a buy whose amount is a
\* string that is not a number.
SchemaOrders ==
    { BuyRaw(F(1, 0), None, None),
      [action |-> "SELL", holding_id |-> "H1", amount |-> F(1, 0), stop_loss |-> F(90, 0)],
      [action |-> "BUY", asset |-> "BTC", amount |-> F(1, 0), note |-> "dip"],
      [action |-> "BUY", asset |-> "BTC", amount |-> [str |-> "a lot"]] }

MaxSchemaOrders == 2

SchemaArgs ==
    {Args(r[1], r[2], Code("ok", RunDfHoldings)) : r \in {<<Day(2), Day(2)>>, <<Day(4), Day(5)>>}}

SchemaOutcomes == Outcomes(SchemaOrders, MaxSchemaOrders)

NextSchema == NextOver(SchemaArgs, SchemaOutcomes)

SpecSchema == Init /\ [][NextSchema]_vars

\* What the guardrail is given: an output that was not parsed, one of another
\* type, and implementations, fenced or bare, of a strategy that runs, of a
\* source without run and of one whose module body raises BaseException.
TaskOutputs ==
    {TaskOutput(None), TaskOutput([type |-> "str"])}
    \cup {TaskOutput(ImplementationTaskOutput(Implementation(f, c))) :
            f \in BOOLEAN,
            c \in {Code("ok", RunDfHoldings), Code("ok", NoRun),
                   Code("BaseException", RunDfHoldings)}}

MaxGuardrailOrders == 1

GuardrailOutcomes == Outcomes(EngineOrders, MaxGuardrailOrders)

NextGuardrail ==
    \/ \E task_output \in TaskOutputs : GuardrailCall(task_output)
    \/ \E out \in GuardrailOutcomes : CallStrategy(out)
    \/ ApplyOrder
    \/ AutoClose
    \/ GuardrailReturn

SpecGuardrail == Init /\ [][NextGuardrail]_vars

\* What the attempts of a flow get: a kickoff of the crew that raises, or
\* one of two outlines with a fenced implementation for which test_strategy
\* returns a BacktestResult (a final book of 9000, 10000 or 10700 USD), an
\* error string, or lets an exception pass.
FlowResults ==
    {Result(BacktestResult(<< HoldingState(USD_HOLDING_ID, "USD", F(usd, 0), None, None) >>,
                           F(100, 0))) : usd \in {9000, 10000, 10700}}
    \cup {ErrorString("Strategy execution error", "stack trace"), Raised("BaseException")}

CrewOutputs ==
    {CrewOutput(TRUE, "", Implementation(TRUE, Code("ok", RunDfHoldings)), Raised("Exception"))}
    \cup {CrewOutput(FALSE, outline, Implementation(TRUE, Code("ok", RunDfHoldings)), result) :
             outline \in {"momentum", "mean reversion"}, result \in FlowResults}

NextFlow ==
    \/ Kickoff
    \/ \E crew_output \in CrewOutputs : MainLoop(crew_output)
    \/ Finish

SpecFlow == Init /\ [][NextFlow]_vars

\* Dates asked of the table: before the first candle, on a candle, at an
\* intraday time of a day with a candle and of a day without one, on the
\* last candle, after it.
QueryDates ==
    {Day(0), Day(1), Day(2) + 1, Day(3), Day(3) + 1, Day(5), Day(6) + 1, Day(7)}

\* Endpoints of the ranges asked for: before the first candle, at an
\* intraday time, on a day without a candle, on the last candle, and two
\* days after it.
RangeEnds == {Day(0), Day(2) + 1, Day(3), Day(6), Day(7), Day(8)}

NextTable ==
    \/ \E date \in QueryDates : GetDfUntilDate(date)
    \/ \E start \in RangeEnds, end \in RangeEnds : GetTradingDates(start, end)
    \/ \E start \in RangeEnds, end \in RangeEnds : GetForDateRange(start, end)

SpecTable == Init /\ [][NextTable]_vars


\* ------------------------------------------------------------------------
\* Properties.
\* ------------------------------------------------------------------------

\* C1: on every trading day D of a run, the df passed to run is exactly the
\* rows of the price table dated <= D - 1 day, in ascending date order; it
\* holds no row dated >= D.
C1_NoLookAhead ==
    hist.call # None =>
        LET D == hist.call.day
            seen == hist.call.df
        IN  /\ seen = SelectSeq(df, LAMBDA b : b.Date <= D - TicksPerDay)
            /\ \A i \in 1..Len(seen) : seen[i].Date < D
            /\ \A i \in 1..(Len(seen) - 1) : seen[i].Date < seen[i + 1].Date

\* The strategy is called on day 4, the day after the gap, and sees the two
\* candles of days 1 and 2.
C1_Witness ==
    /\ hist.call # None
    /\ hist.call.day = Day(4)
    /\ Len(hist.call.df) = 2

\* C2: in every ledger state from the reset on, through any orders the
\* order model accepts and any stop-loss / take-profit enforcement, no
\* holding has a negative amount and the USD amount is >= -1e-12.
\* (-1e-12 lies between -2 * 2^-40 and -1 * 2^-40.)
C2_NonNegativity ==
    hist.reset =>
        \A i \in 1..Len(holdings) :
            IF holdings[i].asset = "USD"
            THEN Ge(holdings[i].amount, F(0, -1))
            ELSE Ge(holdings[i].amount, F(0, 0))

\* C3: in every ledger state from the reset on, exactly one holding has
\* asset USD, and its holding_id is "USD".
C3_SingleUsdHolding ==
    hist.reset =>
        /\ Cardinality({i \in 1..Len(holdings) : holdings[i].asset = "USD"}) = 1
        /\ \A i \in 1..Len(holdings) :
              holdings[i].asset = "USD" => holdings[i].holding_id = "USD"

\* Two holdings were bought and both closed by the enforcement of the day:
\* the ledger is down to the USD holding again.
C3_Witness ==
    /\ hist.reset
    /\ Len(hist.issued) = 2
    /\ Len(hist.sales) = 2
    /\ Len(holdings) = 1

\* C4: within one run no two holdings share a holding_id, the k-th
\* successful BUY receives the id H<k>, and no id is issued again after its
\* holding was closed (the ids issued are pairwise distinct, and every BTC
\* holding carries an issued id).
C4_IdUniqueness ==
    hist.reset =>
        /\ \A i, j \in 1..Len(holdings) :
              holdings[i].holding_id = holdings[j].holding_id => i = j
        /\ \A k \in 1..Len(hist.issued) : hist.issued[k] = "H" \o ToString(k)
        /\ \A k, l \in 1..Len(hist.issued) : hist.issued[k] = hist.issued[l] => k = l
        /\ \A i \in 1..Len(holdings) :
              holdings[i].asset = "BTC" =>
                  \E k \in 1..Len(hist.issued) : hist.issued[k] = holdings[i].holding_id

\* A second BUY came after the first holding was closed: H1 is gone and the
\* new holding is H2.
C4_Witness ==
    /\ hist.reset
    /\ Len(hist.ops) = 2
    /\ hist.ops[1].action = "SELL" /\ hist.ops[1].holding_id = "H1"
    /\ hist.ops[2].action = "BUY" /\ hist.ops[2].holding_id = "H2"
    /\ find_holding(holdings, "H1") = 0
    /\ find_holding(holdings, "H2") # 0

\* C5: if on day D an open BTC holding has both stop_loss >= low_D and
\* take_profit <= high_D, the enforcement of day D sells its full amount
\* exactly once, at the stop_loss price, and makes no take-profit sale of it.
C5_StopLossBeforeTakeProfit ==
    [][pc = "sltp" =>
        LET day_row == row_at(df, to_timestamp(dates[di]))
            low == row_low(day_row)
            high == row_high(day_row)
        IN  \A i \in 1..Len(holdings) :
              LET h == holdings[i]
                  sold == {k \in 1..Len(hist'.sales) : hist'.sales[k].holding_id = h.holding_id}
              IN  ( /\ h.asset = "BTC"
                    /\ h.stop_loss # None /\ Ge(h.stop_loss, low)
                    /\ h.take_profit # None /\ Le(h.take_profit, high) )
                  => /\ Cardinality(sold) = 1
                     /\ \A k \in sold : /\ hist'.sales[k].trigger = "stop_loss"
                                        /\ hist'.sales[k].price = h.stop_loss
                                        /\ hist'.sales[k].amount = h.amount
                     /\ find_holding(holdings', h.holding_id) = 0
    ]_vars

\* C6: the validated orders of a day are applied one at a time in list
\* order, all at the day's Open, each on the ledger the orders before it
\* left; the first order whose application fails ends the run with
\* "Order error: ..." and no later order of the list is applied.
C6_OrdersInListOrder ==
    (hist.today # <<>> /\ (pc \in {"apply", "sltp"}
                          \/ (pc = "idle" /\ hist.applied < Len(hist.today)))) =>
        LET open_D == F(row_at(df, hist.call.day).Open, 0)
            n == Len(hist.today)
            done == apply_orders(hist.start.holdings, hist.start.next_id,
                                 hist.today, hist.applied, open_D)
        IN  /\ done.ok
            /\ holdings = done.holdings
            /\ next_id = done.next_id
            /\ pc = "apply" => hist.applied < n /\ orders = SubSeq(hist.today, hist.applied + 1, n)
            /\ pc = "sltp" => hist.applied = n /\ orders = <<>>
            /\ pc = "idle" =>
                  /\ ~apply_order(done.holdings, done.next_id,
                                  hist.today[hist.applied + 1], open_D).ok
                  /\ ret.kind = "str" /\ ret.category = "Order error"
                  /\ orders = <<>>

\* A list of three orders whose second fails: the first is applied, the
\* run ends with an Order error, the third is never applied.
C6_Witness ==
    /\ pc = "idle"
    /\ ret.kind = "str" /\ ret.category = "Order error"
    /\ Len(hist.today) = 3
    /\ hist.applied = 1
    /\ HasBtc(holdings)

\* C7: every call of test_strategy ends by returning a BacktestResult or a
\* string that begins with one of the five category prefixes; nothing
\* leaves the call as a raised exception.
C7_AlwaysReturns ==
    (pc = "idle" /\ runs > 0) =>
        \/ ret.kind = "BacktestResult"
        \/ /\ ret.kind = "str"
           /\ ret.category \in {"Date range validation error", "Strategy code validation error",
                                "Strategy execution error", "Order error",
                                "Unexpected backtest error"}

\* C8: every run that reaches the strategy starts from a ledger holding only
\* USD 10000 with next id H1, whatever the earlier runs left behind; and a
\* run with the same inputs as the run before it returns the same result
\* (results are compared in outline: a BacktestResult or a string, and the
\* category of the string; results that differ there are not equal).
C8_FreshStartEveryRun ==
    /\ (pc = "strategy" /\ di = 1) =>
          /\ holdings = << [holding_id |-> "USD", asset |-> "USD", amount |-> F(10000, 0),
                            stop_loss |-> None, take_profit |-> None] >>
          /\ new_holding_id(next_id).hid = "H1"
    /\ (pc = "idle" /\ hist.prev # None) => Outline(ret) = hist.prev

\* C9: if any order of the list returned on a day is ill-formed (wrong
\* action, BUY asset other than BTC, missing field, or amount <= 0), the
\* list is rejected with an Order error and no order of it has been applied
\* to the ledger.
C9_WholeListRejected ==
    LET ill_formed(raw) ==
            \/ ~validate_order(raw).ok
            \/ (Has(raw, "amount") /\ IsFloat(raw.amount) /\ Le(raw.amount, F(0, 0)))
    IN  (hist.start # None /\ \E i \in 1..Len(hist.raw) : ill_formed(hist.raw[i])) =>
            /\ holdings = hist.start.holdings
            /\ next_id = hist.start.next_id
            /\ pc = "idle" => (ret.kind = "str" /\ ret.category = "Order error")

\* C10: a BUY of amount a at price p followed by a SELL of the same amount
\* of the holding it created, at the same price and with no stop-loss /
\* take-profit sale in between, leaves the USD amount within 1e-12 of its
\* value before the BUY and removes the holding.
C10_RoundTrip ==
    (Len(hist.ops) = 2 /\ hist.ops[1].action = "BUY" /\ hist.ops[2].action = "SELL"
        /\ hist.ops[2].holding_id = hist.ops[1].holding_id
        /\ hist.ops[2].amount = hist.ops[1].amount
        /\ hist.ops[2].price = hist.ops[1].price) =>
        LET before == hist.ops[1].usd_before
            after  == hist.ops[2].usd_after
        IN  /\ after.w = before.w
            /\ after.t - before.t \in -1..1
            /\ find_holding(holdings, hist.ops[1].holding_id) = 0

\* C11: if the requested range resolves to trading dates and no bar is dated
\* before the first of them, test_strategy returns "Date range validation
\* error: start_date requires at least 1 prior candle (warm-up) ..."; a
\* range that does not resolve gives a "Date range validation error" too;
\* both are returned whatever the strategy source is, and the strategy is
\* never called.
C11_WarmupBeforeSource ==
    (pc = "idle" /\ runs > 0) =>
        LET start_ts == to_timestamp(args.start_date)
            end_ts == to_timestamp(args.end_date)
            in_range == SelectSeq(df, LAMBDA b : start_ts <= b.Date /\ b.Date <= end_ts)
            resolved == /\ start_ts <= end_ts
                        /\ df[1].Date <= start_ts /\ end_ts <= df[Len(df)].Date
                        /\ in_range # <<>>
            no_prior == \A i \in 1..Len(df) : ~(df[i].Date < in_range[1].Date)
        IN  /\ ~resolved =>
                  /\ ret.kind = "str" /\ ret.category = "Date range validation error"
                  /\ hist.call = None
            /\ (resolved /\ no_prior) =>
                  /\ ret = ErrorString("Date range validation error",
                                       "start_date requires at least 1 prior candle (warm-up)")
                  /\ hist.call = None

\* A call whose range starts on the first candle and whose source defines
\* no run has returned the warm-up error.
C11_Witness ==
    /\ pc = "idle" /\ runs > 0
    /\ args.start_date = df[1].Date
    /\ args.trading_strategy_code = Code("ok", NoRun)
    /\ ret.kind = "str" /\ ret.category = "Date range validation error"
    /\ ret.detail = "start_date requires at least 1 prior candle (warm-up)"

\* C12: if the executed source binds no callable run, or run has not exactly
\* two parameters, or one of them is keyword-only, *args or **kwargs, a call
\* that gets as far as loading the source returns "Strategy code validation
\* error: ..."; the strategy is not called on any day and the ledger is as
\* the reset left it.
C12_BadEntryPoint ==
    (pc = "idle" /\ runs > 0) =>
        LET start_ts == to_timestamp(args.start_date)
            end_ts == to_timestamp(args.end_date)
            in_range == SelectSeq(df, LAMBDA b : start_ts <= b.Date /\ b.Date <= end_ts)
            reaches_loading ==
                /\ start_ts <= end_ts
                /\ df[1].Date <= start_ts /\ end_ts <= df[Len(df)].Date
                /\ in_range # <<>>
                /\ \E i \in 1..Len(df) : df[i].Date < in_range[1].Date
            code == args.trading_strategy_code
            bad_run ==
                \/ code.run.kind \in {"missing", "not callable"}
                \/ Len(code.run.params) # 2
                \/ \E i \in 1..Len(code.run.params) :
                       code.run.params[i] \in {"KEYWORD_ONLY", "VAR_POSITIONAL", "VAR_KEYWORD"}
        IN  (reaches_loading /\ code.toplevel = "ok" /\ bad_run) =>
                /\ ret.kind = "str" /\ ret.category = "Strategy code validation error"
                /\ hist.call = None
                /\ holdings = << [holding_id |-> "USD", asset |-> "USD", amount |-> F(10000, 0),
                                  stop_loss |-> None, take_profit |-> None] >>
                /\ next_id = 1

\* A second call on the same backtester has ended on a run with three
\* parameters, with the ledger reset.
C12_Witness ==
    /\ pc = "idle" /\ runs = 2
    /\ Len(args.trading_strategy_code.run.params) = 3
    /\ ret.kind = "str" /\ ret.category = "Strategy code validation error"
    /\ hist.issued = <<>>
    /\ Len(holdings) = 1

\* C13: on any day, an exception raised by the strategy ends the run with
\* "Strategy execution error ..." and the trace; a None return counts as an
\* empty list (the day goes on to the enforcement with no orders); another
\* return that is no list ends the run with "Order error: run(df, holdings)
\* must return a list ..."; in the two error cases the ledger is as it was
\* before the call.
C13_StrategyOutcomes ==
    hist.outcome # None =>
        /\ hist.outcome.kind = "raise" =>
              /\ pc = "idle"
              /\ ret = ErrorString("Strategy execution error", "stack trace")
              /\ holdings = hist.start.holdings /\ next_id = hist.start.next_id
        /\ hist.outcome.kind = "nonlist" =>
              /\ pc = "idle"
              /\ ret = ErrorString("Order error",
                                   "run(df, holdings) must return a list of orders (or an empty list).")
              /\ holdings = hist.start.holdings /\ next_id = hist.start.next_id
        /\ hist.outcome.kind = "none" =>
              /\ pc # "apply"
              /\ hist.today = <<>> /\ hist.applied = 0 /\ orders = <<>>
              /\ pc = "idle" => ret.kind = "BacktestResult"

\* C14: a BUY order is accepted (applied, creating a holding) only if its
\* asset is BTC, its amount is > 0 and each of stop_loss and take_profit is
\* absent or a positive number; a BUY with a zero or negative stop_loss or
\* take_profit creates no holding.
C14_BuyAcceptance ==
    [][ (pc = "apply" /\ orders # <<>> /\ Head(orders).action = "BUY"
         /\ hist'.applied = hist.applied + 1)
        => LET o == Head(orders) IN
           /\ o.asset = "BTC"
           /\ Gt(o.amount, F(0, 0))
           /\ (o.stop_loss = None \/ Gt(o.stop_loss, F(0, 0)))
           /\ (o.take_profit = None \/ Gt(o.take_profit, F(0, 0)))
           /\ Len(holdings') = Len(holdings) + 1 ]_vars

\* C15: after a source was executed, a top-level function or a method of a
\* top-level class that is called resolves the names of the other top-level
\* functions and classes of the same source: the call never fails the lookup
\* of a name the source defines at top level.
C15_SiblingsResolve ==
    (ex.pc = "called" /\ ex.called.exc = "NameError") =>
        LET top_level == {ex.code.body[i].id : i \in
                            {j \in 1..Len(ex.code.body) :
                                ex.code.body[j].kind \in {"FunctionDef", "ClassDef"}}}
        IN  ex.called.name \notin top_level

\* The nodes of the statements seq, at every depth.
RECURSIVE NodesOf(_)
NodesOf(seq) == UNION { {seq[i]} \cup NodesOf(seq[i].body) : i \in 1..Len(seq) }

\* C16: check_and_compile rejects every source that holds, at any depth, an
\* import or from-import of a module whose first dotted component is outside
\* the allow-list; it raises "Unsafe import not allowed" for no other source,
\* and accepts a source in which nothing but imports of allow-listed modules
\* or their submodules is screened.
C16_ImportAllowList ==
    (ex.cycles > 0 /\ ex.code.str /\ ex.code.text = "module") =>
        LET nodes   == NodesOf(ex.code.body)
            allowed == ex.self.allowed_modules
            outside == \E n \in nodes :
                          \/ /\ n.kind = "Import"
                             /\ \E k \in 1..Len(n.names) : <<n.names[k][1]>> \notin allowed
                          \/ /\ n.kind = "ImportFrom"
                             /\ n.names # <<>>
                             /\ <<n.names[1][1]>> \notin allowed
            other   == \E n \in nodes :
                          \/ n.kind = "ImportFrom" /\ n.names = <<>>
                          \/ n.kind = "Name" /\ n.id \in ex.self.banned_names
                          \/ n.kind = "Attribute" /\ n.id \in ex.self.banned_attributes
        IN  /\ outside => ~ex.compiled.ok
            /\ (~ex.compiled.ok /\ ex.compiled.msg \in {"Unsafe import not allowed: import",
                                                         "Unsafe import not allowed: from"})
                   => outside
            /\ (~outside /\ ~other) => ex.compiled.ok

\* A source whose only import sits two function definitions deep, of a module
\* outside the allow-list, was rejected for it.
C16_Witness ==
    /\ ex.pc = "checked"
    /\ ex.code.str /\ ex.code.text = "module"
    /\ \A i \in 1..Len(ex.code.body) : ex.code.body[i].kind = "FunctionDef"
    /\ \E n \in NodesOf(ex.code.body) : n.kind = "Import" /\ <<n.names[1][1]>> \notin ex.self.allowed_modules
    /\ ~ex.compiled.ok
    /\ ex.compiled.msg = "Unsafe import not allowed: import"

\* C17: check_and_compile rejects every source that holds a relative
\* from-import (level >= 1), whatever module name follows the dots.
C17_RelativeImportsRejected ==
    (ex.cycles > 0 /\ ex.code.str /\ ex.code.text = "module"
     /\ \E n \in NodesOf(ex.code.body) : n.kind = "ImportFrom" /\ n.level >= 1)
        => ~ex.compiled.ok

\* C18: check_and_compile rejects every source whose tree holds, at any
\* depth, a Name whose identifier is in the name deny-list or an Attribute
\* whose attribute name is in the attribute deny-list; it rejects blank
\* sources and sources with a syntax error; and for a rejected source there
\* is no code object and nothing is executed.
C18_DenyLists ==
    ex.cycles > 0 =>
        /\ (ex.code.str /\ ex.code.text = "module"
            /\ \E n \in NodesOf(ex.code.body) :
                  \/ n.kind = "Name" /\ n.id \in ex.self.banned_names
                  \/ n.kind = "Attribute" /\ n.id \in ex.self.banned_attributes)
              => ~ex.compiled.ok
        /\ (~ex.code.str \/ ex.code.text \in {"blank", "malformed"}) => ~ex.compiled.ok
        /\ ~ex.compiled.ok =>
              /\ "tree" \notin DOMAIN ex.compiled
              /\ ex.compiled.exc = "ValueError"
              /\ ex.pc = "checked" /\ ex.run = NotYet /\ ex.called = NotYet

\* A source whose only denied node is an attribute access inside a method of
\* a class (three statements deep) was rejected for it.
C18_Witness ==
    /\ ex.pc = "checked"
    /\ ex.code.str /\ ex.code.text = "module"
    /\ \A i \in 1..Len(ex.code.body) :
          /\ ex.code.body[i].kind = "ClassDef"
          /\ \A j \in 1..Len(ex.code.body[i].body) :
                ex.code.body[i].body[j].kind = "FunctionDef"
    /\ \E n \in NodesOf(ex.code.body) :
          n.kind = "Attribute" /\ n.id \in ex.self.banned_attributes
    /\ ~ex.compiled.ok
    /\ ex.compiled.msg = "Access to banned attribute is not allowed"

\* C19: the builtins mapping given to executed code has none of eval, exec,
\* compile, open, input, breakpoint, globals, locals, vars, dir, help,
\* getattr, setattr, delattr; it has __build_class__; and its __import__ is
\* the hook, which raises ImportError for every module whose first dotted
\* component is outside the allow-list and otherwise does what the host's
\* import does.
C19_Builtins ==
    ex.pc \in {"executed", "called"} =>
        LET builtins == ex.run.safe_builtins
            modules  == InstalledModules \cup { <<"socket">>, <<"math", "nothing">> }
        IN  /\ DOMAIN builtins \cap
                  { "eval", "exec", "compile", "open", "input", "breakpoint",
                    "globals", "locals", "vars", "dir", "help",
                    "getattr", "setattr", "delattr" } = {}
            /\ "__build_class__" \in DOMAIN builtins
            /\ builtins["__build_class__"] = Builtin("__build_class__")
            /\ builtins["__import__"] = FunctionObject("_safe_import", <<>>)
            /\ \A name \in modules : \A level \in 0..1 :
                  IF <<name[1]>> \in ex.self.allowed_modules
                  THEN safe_import(ex.self, name, level)
                          = IF level = 0 /\ name \in InstalledModules THEN "" ELSE "ImportError"
                  ELSE safe_import(ex.self, name, level) = "ImportError"

\* A source with a class statement was executed to its end: the class was
\* built with the mapping's __build_class__.
C19_Witness ==
    /\ ex.pc = "executed"
    /\ ex.run.ok
    /\ \E n \in DOMAIN ex.run.ns : ex.run.ns[n].v = "class"
    /\ "__build_class__" \in DOMAIN ex.run.safe_builtins
    /\ "exec" \notin DOMAIN ex.run.safe_builtins

\* C20: every execute_compiled call builds new globals and locals, so that
\* what a source's execution returns (the namespace with its mappings, or
\* the exception) and what the call of its entry point returns are what they
\* are on an executor that has executed nothing before: no name and no
\* module-level state of an earlier source is seen.
C20_FreshNamespace ==
    LET fresh == execute_compiled(ex.self, ex.compiled, EmptyMap,
                                  ex.import_needs_dict, EmptyMap)
    IN  /\ ex.pc \in {"executed", "called"} => ex.run = [fresh EXCEPT !.host = EmptyMap]
        /\ ex.pc = "called" =>
              \E entry \in EntryPoints :
                 /\ entry \in DOMAIN fresh.ns
                 /\ LET env == Env(ex.self, fresh.exec_globals, fresh.safe_builtins,
                                   ex.import_needs_dict)
                        r   == exec(fresh.ns[entry].body, 1, EmptyMap, env, fresh.host)
                    IN  ex.called = [ok |-> r.ok, exc |-> r.exc, name |-> r.name,
                                     value |-> r.value]

\* C21: whatever user code does to the df and to the holdings list it
\* receives, the price table never changes, and the step that calls the
\* strategy leaves the ledger as it was (the ledger changes only when the
\* returned orders are applied, at the enforcement and at the reset).
C21_DefensiveCopies ==
    [][ /\ df' = df
        /\ pc = "strategy" => (holdings' = holdings /\ next_id' = next_id) ]_vars

\* On the second day of a run the strategy was given a BTC holding, has
\* overwritten what it received, and the table is still the original.
C21_Witness ==
    /\ di = 2
    /\ hist.outcome # None
    /\ hist.outcome.scribble
    /\ hist.call # None /\ hist.call.day = to_timestamp(dates[2])
    /\ \E i \in 1..Len(hist.call.holdings) : hist.call.holdings[i].asset = "BTC"
    /\ df \in Tables
    /\ HasBtc(holdings)

\* The bars of the table dated before day, and the latest of them.
BarsBefore(table, day) == {i \in 1..Len(table) : table[i].Date < day}

LatestBarBefore(table, day) ==
    table[CHOOSE i \in BarsBefore(table, day) : \A j \in BarsBefore(table, day) : j <= i]

\* C22: the holdings payload of a day has one mapping per holding of the
\* ledger as it stood when run was called, in ledger order, carrying the
\* holding's id, asset, amount and thresholds; unit_value_usd is 1.0 for USD
\* and the Close of the latest bar dated before the day for BTC; and
\* total_value_usd is amount * unit_value_usd.
C22_HoldingsPayload ==
    hist.call # None =>
        LET payload == hist.call.holdings
            ledger  == hist.start.holdings
            prior   == LatestBarBefore(df, hist.call.day)
        IN  /\ Len(payload) = Len(ledger)
            /\ \A i \in 1..Len(ledger) :
                /\ payload[i].holding_id = ledger[i].holding_id
                /\ payload[i].asset = ledger[i].asset
                /\ payload[i].amount = ledger[i].amount
                /\ payload[i].stop_loss = ledger[i].stop_loss
                /\ payload[i].take_profit = ledger[i].take_profit
                /\ payload[i].unit_value_usd =
                      IF ledger[i].asset = "USD" THEN F(1, 0) ELSE F(prior.Close, 0)
                /\ payload[i].total_value_usd =
                      Mul(ledger[i].amount, payload[i].unit_value_usd)

\* A day whose payload carries a BTC holding, valued at a Close that is none
\* of the day's own Open, High, Low and Close.
C22_Witness ==
    /\ hist.call # None
    /\ \E i \in 1..Len(hist.call.holdings) :
          LET p   == hist.call.holdings[i]
              bar == row_at(df, hist.call.day)
          IN  /\ p.asset = "BTC"
              /\ p.unit_value_usd \notin
                    {F(bar.Open, 0), F(bar.High, 0), F(bar.Low, 0), F(bar.Close, 0)}

\* C23: a BacktestResult lists the final ledger holdings, BTC valued at the
\* Close of the last trading date and USD at 1.0, total_portfolio_usd is the
\* sum of their total_value_usd and revenue_percent is
\* (total_portfolio_usd / 10000 - 1) * 100; a run in which no holding id was
\* ever issued (so no order was ever applied) ends with the single USD
\* holding of 10000, a total of 10000 and a revenue of 0.
C23_FinalValuation ==
    ret.kind = "BacktestResult" =>
        LET res   == ret.result
            last  == row_at(df, to_timestamp(dates[Len(dates)]))
            total == sum_total_value(res.holdings, Len(res.holdings))
        IN  /\ Len(res.holdings) = Len(holdings)
            /\ \A i \in 1..Len(holdings) :
                /\ res.holdings[i].holding_id = holdings[i].holding_id
                /\ res.holdings[i].asset = holdings[i].asset
                /\ res.holdings[i].amount = holdings[i].amount
                /\ res.holdings[i].stop_loss = holdings[i].stop_loss
                /\ res.holdings[i].take_profit = holdings[i].take_profit
                /\ res.holdings[i].unit_value_usd =
                      IF holdings[i].asset = "USD" THEN F(1, 0) ELSE F(last.Close, 0)
                /\ res.holdings[i].total_value_usd =
                      Mul(holdings[i].amount, res.holdings[i].unit_value_usd)
            /\ res.total_portfolio_usd = total
            /\ res.revenue_percent.num = F(total.w - INITIAL_PORTFOLIO_USD, total.t)
            /\ res.revenue_percent.den * 100 = INITIAL_PORTFOLIO_USD
            /\ hist.issued = <<>> =>
                  /\ Len(res.holdings) = 1
                  /\ res.holdings[1].asset = "USD"
                  /\ res.holdings[1].amount = F(INITIAL_PORTFOLIO_USD, 0)
                  /\ res.total_portfolio_usd = F(INITIAL_PORTFOLIO_USD, 0)
                  /\ res.revenue_percent.num = F(0, 0)

\* A result that carries a BTC holding valued at a Close that differs from
\* the last day's Open, with a revenue that is not 0.
C23_Witness ==
    /\ ret.kind = "BacktestResult"
    /\ \E i \in 1..Len(ret.result.holdings) :
          /\ ret.result.holdings[i].asset = "BTC"
          /\ ret.result.holdings[i].unit_value_usd
                # F(row_at(df, to_timestamp(dates[Len(dates)])).Open, 0)
    /\ ret.result.revenue_percent.num # F(0, 0)

\* A two-day run whose strategy returned no order on either day has ended
\* with a result.
C23_NoOrderRun ==
    /\ ret.kind = "BacktestResult"
    /\ Len(dates) = 2
    /\ hist.issued = <<>>
    /\ hist.raw = <<>>
    /\ ret.result.revenue_percent.num = F(0, 0)

\* The calendar day a timestamp falls on.
CalendarDay(ts) == ts \div TicksPerDay

Ascending(rows) == \A i, j \in 1..Len(rows) : i < j => rows[i].Date < rows[j].Date

IsPrefix(s, t) == Len(s) <= Len(t) /\ s = SubSeq(t, 1, Len(s))

\* C24: get_df_until_date(D) returns exactly the bars dated on or before the
\* calendar day of D, in ascending order (D's own bar included whatever the
\* time of day D carries; nothing when D is before the first bar; the whole
\* table when D is after the last), and of two such queries the one with the
\* earlier D returned a prefix of what the other returned.
C24_PrefixUntil ==
    LET until == {i \in 1..Len(queries) : queries[i].fn = "get_df_until_date"}
    IN  /\ \A i \in until :
            LET D   == queries[i].start
                out == queries[i].out
            IN  /\ out = SelectSeq(df, LAMBDA b : CalendarDay(b.Date) <= CalendarDay(D))
                /\ Ascending(out)
                /\ \A k \in 1..Len(df) :
                      CalendarDay(df[k].Date) = CalendarDay(D) => out[Len(out)] = df[k]
                /\ CalendarDay(D) < CalendarDay(df[1].Date) => out = <<>>
                /\ CalendarDay(D) > CalendarDay(df[Len(df)].Date) => out = df
        /\ \A i, j \in until :
            queries[i].start <= queries[j].start => IsPrefix(queries[i].out, queries[j].out)

\* Two queries: one at an intraday time of a day with a bar, which returned
\* that bar last, and one for a later day, which returned more.
C24_Witness ==
    /\ Len(queries) = 2
    /\ queries[1].fn = "get_df_until_date" /\ queries[2].fn = "get_df_until_date"
    /\ queries[1].start % TicksPerDay # 0
    /\ queries[1].out # <<>>
    /\ queries[1].out[Len(queries[1].out)].Date = to_timestamp(queries[1].start)
    /\ queries[1].start < queries[2].start
    /\ Len(queries[1].out) < Len(queries[2].out)

\* The bars of the table dated from day a to day b.
BarsBetween(table, a, b) ==
    SelectSeq(table, LAMBDA r : a <= CalendarDay(r.Date) /\ CalendarDay(r.Date) <= b)

\* C25: with a and b the calendar days of the endpoints given, a range query
\* fails with the start-after-end error when a > b, otherwise with the
\* outside-dataset-bounds error when a is before the first bar's day or b
\* after the last bar's, otherwise with the no-rows error when no bar is
\* dated from a to b; in every other case it returns exactly the bars dated
\* from a to b in ascending order, and get_trading_dates their dates, never
\* an empty list.
C25_RangeQuery ==
    \A i \in 1..Len(queries) :
        queries[i].fn \in {"get_trading_dates", "get_for_date_range"} =>
            LET a    == CalendarDay(queries[i].start)
                b    == CalendarDay(queries[i].end)
                out  == queries[i].out
                bars == BarsBetween(df, a, b)
            IN  IF a > b
                THEN ~out.ok /\ out.error = "start is after end"
                ELSE IF a < CalendarDay(df[1].Date) \/ b > CalendarDay(df[Len(df)].Date)
                THEN ~out.ok /\ out.error = "outside the dataset bounds"
                ELSE IF bars = <<>>
                THEN ~out.ok /\ out.error = "No rows found in range"
                ELSE /\ out.ok
                     /\ Ascending(bars)
                     /\ queries[i].fn = "get_for_date_range" => out.points = bars
                     /\ queries[i].fn = "get_trading_dates" =>
                           /\ out.dates = [k \in 1..Len(bars) |-> bars[k].Date]
                           /\ out.dates # <<>>

\* A range inside the bounds with no bar in it has been refused with the
\* no-rows error, and a range with intraday endpoints has returned its dates.
C25_Witness ==
    /\ Len(queries) = 2
    /\ queries[1].fn = "get_for_date_range"
    /\ ~queries[1].out.ok /\ queries[1].out.error = "No rows found in range"
    /\ queries[2].fn = "get_trading_dates"
    /\ queries[2].start % TicksPerDay # 0
    /\ queries[2].out.ok /\ Len(queries[2].out.dates) >= 2

\* The fields of the two order variants.
BuyOrderFields == {"action", "asset", "amount", "stop_loss", "take_profit"}

SellOrderFields == {"action", "holding_id", "amount"}

OutsideSchema(raw) ==
    /\ Has(raw, "action")
    /\ \/ raw.action = "BUY" /\ ~(DOMAIN raw \subseteq BuyOrderFields)
       \/ raw.action = "SELL" /\ ~(DOMAIN raw \subseteq SellOrderFields)

WrongType(raw) ==
    \E key \in DOMAIN raw \cap {"amount", "stop_loss", "take_profit"} :
        ~IsFloat(raw[key]) /\ ~(key # "amount" /\ raw[key] = None)

\* C26: when the list returned on a day holds an order mapping with a field
\* outside its variant's schema, or with a field of the wrong type, the call
\* ends with an Order error and the ledger is as it was when run was called.
C26_StrictSchema ==
    ( /\ hist.outcome # None
      /\ hist.outcome.kind = "list"
      /\ \E i \in 1..Len(hist.raw) : OutsideSchema(hist.raw[i]) \/ WrongType(hist.raw[i]) )
    => /\ pc = "idle"
       /\ ret.kind = "str" /\ ret.category = "Order error"
       /\ holdings = hist.start.holdings

\* The same for orders with a field of the wrong type only.
C26_IllTypedRejected ==
    ( /\ hist.outcome # None
      /\ hist.outcome.kind = "list"
      /\ \E i \in 1..Len(hist.raw) : WrongType(hist.raw[i]) )
    => /\ pc = "idle"
       /\ ret.kind = "str" /\ ret.category = "Order error"
       /\ holdings = hist.start.holdings

IsPair(v) == DOMAIN v = {"ok", "value"}

\* C27: once the guardrail has called test_strategy and returned, it has
\* returned the failure pair carrying the backtester's error string exactly
\* when test_strategy returned a string, and the ok pair carrying the
\* BacktestResult exactly when test_strategy returned a BacktestResult.
C27_GuardrailPairs ==
    (~guardrail.pending /\ guardrail.code # None) =>
        /\ ret.kind = "str" <=> guardrail.out = Pair(FALSE, ret)
        /\ ret.kind = "BacktestResult" => guardrail.out = Pair(TRUE, ret.result)
        /\ ret.kind # "BacktestResult" => ~(IsPair(guardrail.out) /\ guardrail.out.ok)

\* What the guardrail does return: the failure pair with the error string for
\* a string, the ok pair with the stripped source for a BacktestResult, and
\* no pair when an exception escaped test_strategy.
C27_GuardrailPassesSource ==
    (~guardrail.pending /\ guardrail.code # None) =>
        /\ ret.kind = "str" <=> guardrail.out = Pair(FALSE, ret)
        /\ ret.kind = "BacktestResult" <=> guardrail.out = Pair(TRUE, guardrail.code)
        /\ ret.kind = "raised" <=> guardrail.out = ret

\* x - y > 1e-12 in exact arithmetic (1e-12 lies between 1 and 2 units of
\* 2^-40, and the fractions of the model stay far below 2^39 units).
ExceedsByMoreThanEps(x, y) == x.w > y.w \/ (x.w = y.w /\ x.t - y.t >= 2)

\* C28: applying a BUY of amount a > 0 at the execution price p fails with
\* "Insufficient USD" exactly when a * p exceeds the USD amount by more than
\* 1e-12; otherwise the USD amount goes down by a * p, one BTC holding with
\* amount a, the order's stop_loss and take_profit and the id H<n> is
\* appended, n goes up by one, and every other holding is as it was.
C28_ApplyBuy ==
    [][ (pc = "apply" /\ orders # <<>> /\ Head(orders).action = "BUY"
         /\ Gt(Head(orders).amount, F(0, 0)))
        => LET o    == Head(orders)
               p    == execution_price(row_at(df, to_timestamp(dates[di])))
               u    == get_usd_holding(holdings)
               cost == Mul(o.amount, p)
           IN  IF ExceedsByMoreThanEps(cost, holdings[u].amount)
               THEN /\ pc' = "idle"
                    /\ ret'.kind = "str" /\ ret'.category = "Order error"
                    /\ ret'.detail = "Insufficient USD for BUY"
               ELSE /\ holdings' =
                         Append([holdings EXCEPT ![u].amount = Sub(@, cost)],
                                HoldingState(new_holding_id(next_id).hid, "BTC", o.amount,
                                             o.stop_loss, o.take_profit))
                    /\ next_id' = next_id + 1 ]_vars

\* The book without its k-th holding.
WithoutHolding(hs, k) == [i \in 1..(Len(hs) - 1) |-> IF i < k THEN hs[i] ELSE hs[i + 1]]

C29_DustRemoved ==
    /\ hist.ops # <<>>
    /\ LET op == hist.ops[Len(hist.ops)]
       IN  /\ op.action = "SELL"
           /\ op.amount = F(0, 1)
           /\ find_holding(holdings, op.holding_id) = 0
           /\ \E i \in 1..Len(hist.today) :
                 hist.today[i].action = "BUY" /\ hist.today[i].amount = F(0, 2)
           /\ ~\E i \in 1..Len(hist.today) :
                 hist.today[i].action = "BUY" /\ hist.today[i].amount # F(0, 2)

\* The USD amount after the proceeds of the first n sales were added to it,
\* one sale after the other.
RECURSIVE CreditedWith(_, _, _)
CreditedWith(usd, sales, n) ==
    IF n = 0 THEN usd
    ELSE Add(CreditedWith(usd, sales, n - 1), Mul(sales[n].amount, sales[n].price))

StopLossHit(h, low) == h.stop_loss # None /\ Le(low, h.stop_loss)

TakeProfitHit(h, high) == h.take_profit # None /\ Ge(high, h.take_profit)

\* C30: when the stop-loss / take-profit enforcement of a day has completed,
\* no BTC holding is left in the book whose stop_loss is set and >= the day's
\* Low or whose take_profit is set and <= the day's High; every holding that
\* was in that case has been sold in full, once, at its stop_loss (when that
\* was hit) or else at its take_profit, and the USD amount has gone up by the
\* proceeds of those sales.
C30_EnforcementComplete ==
    [][ pc = "sltp" =>
        LET day_row == row_at(df, to_timestamp(dates[di]))
            low     == row_low(day_row)
            high    == row_high(day_row)
            sales   == hist'.sales
        IN  /\ \A i \in 1..Len(holdings') :
                  holdings'[i].asset = "BTC" =>
                      /\ ~StopLossHit(holdings'[i], low)
                      /\ ~TakeProfitHit(holdings'[i], high)
            /\ \A i \in 1..Len(holdings) :
                  LET h == holdings[i]
                      sold == {k \in 1..Len(sales) : sales[k].holding_id = h.holding_id}
                  IN  (h.asset = "BTC" /\ (StopLossHit(h, low) \/ TakeProfitHit(h, high)))
                      => /\ Cardinality(sold) = 1
                         /\ \A k \in sold :
                               /\ sales[k].amount = h.amount
                               /\ sales[k].price = IF StopLossHit(h, low) THEN h.stop_loss
                                                   ELSE h.take_profit
            /\ UsdAmount(holdings') = CreditedWith(UsdAmount(holdings), sales, Len(sales))
    ]_vars

\* C31: the enforcement of a day runs only after that day's strategy call
\* returned, its list was validated and every order of the list was applied
\* at the Open, with no error so far; it sells only holdings that are in the
\* book at that point, so a holding that an order of the day sold in full is
\* not sold again.
C31_PhaseOrder ==
    [][ pc = "sltp" =>
        /\ ret = Running
        /\ hist.call # None /\ hist.call.day = to_timestamp(dates[di])
        /\ hist.outcome.kind \in {"list", "none"}
        /\ OrdersAdapter_validate(hist.raw).ok
        /\ hist.today = OrdersAdapter_validate(hist.raw).orders
        /\ orders = <<>>
        /\ hist.applied = Len(hist.today)
        /\ \A k \in 1..Len(hist'.sales) :
              \E i \in 1..Len(holdings) : holdings[i].holding_id = hist'.sales[k].holding_id
        /\ \A i \in 1..Len(hist.today) :
              (hist.today[i].action = "SELL"
                  /\ find_holding(holdings, hist.today[i].holding_id) = 0)
              => \A k \in 1..Len(hist'.sales) :
                    hist'.sales[k].holding_id # hist.today[i].holding_id
    ]_vars

\* A one-day run on the day whose Low is under the stop_loss of the orders:
\* the day's list bought a holding and sold it in full, the enforcement ran
\* after both and sold nothing.
C31_Witness ==
    /\ ret.kind = "BacktestResult"
    /\ dates = <<Day(2)>>
    /\ Len(hist.today) = 2 /\ hist.applied = 2
    /\ hist.today[1].action = "BUY" /\ hist.today[1].stop_loss = F(98, 0)
    /\ hist.today[2].action = "SELL" /\ hist.today[2].holding_id = "H1"
    /\ hist.sales = <<>>
    /\ Len(holdings) = 1


\* C32: the strategy is invoked once per trading date of the range, in
\* ascending order of the dates, until the first error: a call is for the
\* date at the current index, and the next call follows a completed
\* enforcement with the index advanced by one (or begins a new run at the
\* first date); a run that stops before the enforcement of its last date
\* has completed returns an error string, and a BacktestResult is returned
\* only by the enforcement of the last date.
C32_OncePerDate ==
    [][ /\ (pc = "strategy" /\ hist'.call # hist.call) =>
              hist'.call.day = to_timestamp(dates[di])
        /\ pc' = "strategy" =>
              \/ pc = "idle" /\ di' = 1 /\ runs' = runs + 1
              \/ pc = "sltp" /\ di' = di + 1 /\ dates' = dates /\ ret = Running
                    /\ to_timestamp(dates[di']) > to_timestamp(dates[di])
        /\ (pc # "idle" /\ pc' = "idle") =>
              \/ ret'.kind = "str"
              \/ ret'.kind = "BacktestResult" /\ pc = "sltp" /\ di = Len(dates)
        /\ (pc = "idle" /\ pc' # "idle") => runs' = runs + 1
    ]_vars

\* C33: within a run a BTC holding goes from absent to open to closed and
\* stays closed: every holding in the book carries an id numbered below the
\* counter, the counter never decreases, a holding that appears in a step
\* carries an id numbered from the counter on (so never an id used before
\* in the run), and a holding that stays has an amount no larger than
\* before and the stop_loss and take_profit it was created with.
C33_HoldingLifecycle ==
    [][ pc # "idle" =>
        /\ \A i \in 1..Len(holdings) :
              holdings[i].asset = "BTC" =>
                 \E n \in 1..(next_id - 1) : holdings[i].holding_id = "H" \o ToString(n)
        /\ next_id' >= next_id
        /\ \A j \in 1..Len(holdings') :
              holdings'[j].asset = "BTC" =>
                 LET k == find_holding(holdings, holdings'[j].holding_id)
                 IN  IF k = 0
                     THEN \E n \in next_id..(next_id' - 1) :
                             holdings'[j].holding_id = "H" \o ToString(n)
                     ELSE /\ holdings[k].asset = "BTC"
                          /\ Le(holdings'[j].amount, holdings[k].amount)
                          /\ holdings'[j].stop_loss = holdings[k].stop_loss
                          /\ holdings'[j].take_profit = holdings[k].take_profit
    ]_vars

\* A holding H1 was opened and closed and a later BUY of the same day opened
\* H2: the book holds H2 and no H1.
C33_Witness ==
    /\ pc = "sltp"
    /\ Len(hist.today) = 3 /\ hist.applied = 3
    /\ hist.today[1].action = "BUY" /\ hist.today[2].action = "SELL"
    /\ hist.today[3].action = "BUY"
    /\ find_holding(holdings, "H1") = 0
    /\ find_holding(holdings, "H2") # 0
    /\ next_id = 3

\* Orders that the ledger hs must reject, one for each reason: a BUY of
\* amount 0, a BUY of 9000 BTC (more than the USD pays for at any Open of
\* the table), a SELL of amount 0, a SELL of the USD holding, a SELL of an
\* id that is not in the book, and for every BTC holding a SELL of 1 more
\* than it contains.
RejectedOrders(hs) ==
    { [action |-> "BUY", asset |-> "BTC", amount |-> F(0, 0),
       stop_loss |-> None, take_profit |-> None],
      [action |-> "BUY", asset |-> "BTC", amount |-> F(9000, 0),
       stop_loss |-> None, take_profit |-> None],
      SellOrder("H1", F(0, 0)),
      SellOrder(USD_HOLDING_ID, F(1, 0)),
      SellOrder("H9", F(1, 0)) }
    \cup { SellOrder(hs[i].holding_id, Add(hs[i].amount, F(1, 0))) :
              i \in {j \in 1..Len(hs) : hs[j].asset = "BTC"} }

\* C34: a BUY or SELL that is rejected (amount <= 0, insufficient USD, USD
\* target, unknown id, oversell) leaves the holdings list, every amount and
\* the id counter as they were before the call: so does the order of the
\* day's list that ends the run with an Order error, and so would each
\* order of RejectedOrders at the same point of the day.
C34_RejectedOrderNoEffect ==
    [][ pc = "apply" =>
        LET open_price == execution_price(row_at(df, to_timestamp(dates[di])))
        IN  /\ pc' = "idle" =>
                  /\ ret'.kind = "str" /\ ret'.category = "Order error"
                  /\ holdings' = holdings
                  /\ next_id' = next_id
            /\ \A o \in RejectedOrders(holdings) :
                  LET r == apply_order(holdings, next_id, o, open_price)
                  IN  /\ ~r.ok
                      /\ r.holdings = holdings
                      /\ r.next_id = next_id
    ]_vars

\* A BUY was rejected for insufficient USD after an accepted BUY of the same
\* list: the book holds H1 and the counter still stands at 2.
C34_Witness ==
    /\ pc = "idle"
    /\ ret = ErrorString("Order error", "Insufficient USD for BUY")
    /\ Len(hist.today) >= 2 /\ hist.applied = 1
    /\ hist.today[1].action = "BUY" /\ hist.today[2].action = "BUY"
    /\ Len(holdings) = 2 /\ holdings[2].holding_id = "H1"
    /\ next_id = 2

\* The exact sum of the BTC amounts of the first n holdings of hs, and the
\* exact value USD amount + p * (that sum over the book), both as lattice
\* values that are not rounded.
RECURSIVE BtcSum(_, _)
BtcSum(hs, n) ==
    IF n = 0 THEN F(0, 0)
    ELSE LET rest == BtcSum(hs, n - 1)
         IN  IF hs[n].asset = "BTC"
             THEN F(rest.w + hs[n].amount.w, rest.t + hs[n].amount.t)
             ELSE rest

BookValue(hs, p) ==
    LET btc == BtcSum(hs, Len(hs))
        usd == UsdAmount(hs)
    IN  F(usd.w + p.w * btc.w, usd.t + p.w * btc.t)

\* C35: every accepted BUY or SELL executed at price p leaves
\* USD amount + p * (sum of the BTC amounts) as it was, and changes the sum
\* of the BTC amounts by exactly +amount (BUY) or -amount (SELL).
C35_ValueConserved ==
    [][ (pc = "apply" /\ orders # <<>> /\ hist'.applied = hist.applied + 1) =>
        LET o == Head(orders)
            p == execution_price(row_at(df, to_timestamp(dates[di])))
            before == BtcSum(holdings, Len(holdings))
            after == BtcSum(holdings', Len(holdings'))
        IN  /\ BookValue(holdings', p) = BookValue(holdings, p)
            /\ after = IF o.action = "BUY"
                       THEN F(before.w + o.amount.w, before.t + o.amount.t)
                       ELSE F(before.w - o.amount.w, before.t - o.amount.t)
    ]_vars

\* C36: every automatic sale made by the enforcement of a day executes at a
\* price between the day's Low and High.
C36_SalePriceWithinBar ==
    [][ pc = "sltp" =>
        LET day_row == row_at(df, to_timestamp(dates[di]))
        IN  \A k \in 1..Len(hist'.sales) :
               /\ Le(row_low(day_row), hist'.sales[k].price)
               /\ Le(hist'.sales[k].price, row_high(day_row))
    ]_vars

\* C37: the enforcement closes only holdings whose own threshold is reached.
\* Every BTC holding with no threshold set, or with none reached on the
\* day, is in the book afterwards as it was; every holding in the book
\* afterwards was there before (the USD holding apart from its amount); the
\* id counter is as before; each sale is of a holding that was in the book
\* with a threshold reached and is gone afterwards; and the USD amount is
\* the one before with the proceeds of the sales added.
C37_EnforcementFrame ==
    [][ pc = "sltp" =>
        LET day_row == row_at(df, to_timestamp(dates[di]))
            low     == row_low(day_row)
            high    == row_high(day_row)
            sales   == hist'.sales
        IN  /\ next_id' = next_id
            /\ \A i \in 1..Len(holdings) :
                  (holdings[i].asset = "BTC"
                      /\ ~StopLossHit(holdings[i], low) /\ ~TakeProfitHit(holdings[i], high))
                  => \E j \in 1..Len(holdings') : holdings'[j] = holdings[i]
            /\ \A j \in 1..Len(holdings') :
                  \E i \in 1..Len(holdings) :
                     IF holdings[i].asset = "USD"
                     THEN holdings'[j] = [holdings[i] EXCEPT !.amount = holdings'[j].amount]
                     ELSE holdings'[j] = holdings[i]
            /\ \A k \in 1..Len(sales) :
                  /\ find_holding(holdings', sales[k].holding_id) = 0
                  /\ \E i \in 1..Len(holdings) :
                        /\ holdings[i].holding_id = sales[k].holding_id
                        /\ holdings[i].asset = "BTC"
                        /\ StopLossHit(holdings[i], low) \/ TakeProfitHit(holdings[i], high)
            /\ Len(holdings') = Len(holdings) - Len(sales)
            /\ UsdAmount(holdings') = CreditedWith(UsdAmount(holdings), sales, Len(sales))
    ]_vars

\* The enforcement of a day with Low 95 has sold one holding at its
\* stop_loss of 98 and has left the holding whose stop_loss of 0 was not
\* reached.
C37_Witness ==
    /\ pc = "idle" /\ ret.kind = "BacktestResult"
    /\ Len(hist.sales) = 1 /\ hist.sales[1].trigger = "stop_loss"
    /\ \E i \in 1..Len(holdings) :
          /\ holdings[i].asset = "BTC"
          /\ holdings[i].stop_loss = F(0, 0)
          /\ holdings[i].amount = F(0, 2)

\* C38: once the warm-up check on the first trading date has passed, the
\* view of every trading date of the run (the rows dated up to the day
\* before it) is non-empty, and no run ends with the day loop's
\* "not enough history before <day> (warm-up)" string.
C38_LoopViewNonEmpty ==
    /\ pc \in {"strategy", "apply", "sltp"} =>
          \A i \in 1..Len(dates) :
             get_df_until_date(df, to_timestamp(dates[i]) - TicksPerDay) # <<>>
    /\ ~(ret.kind = "str" /\ ret.detail = "not enough history (warm-up)")

\* The second day of a run whose first day has exactly one bar before it is
\* about to call the strategy.
C38_Witness ==
    /\ pc = "strategy" /\ di = 2
    /\ dates = <<Day(2), Day(4)>>
    /\ Len(warmup_view(df, dates)) = 1
    /\ Len(get_df_until_date(df, to_timestamp(dates[di]) - TicksPerDay)) = 2

\* C39: a flow makes exactly MAX_ATTEMPTS attempts when every attempt
\* completes: main_loop is the method to run while the log holds fewer than
\* MAX_ATTEMPTS attempts, finish runs (once) when the log holds
\* MAX_ATTEMPTS, the log never holds more, and finish selects a logged
\* attempt whose revenue_percent no logged attempt exceeds.
C39_ThreeAttempts ==
    /\ Len(flow.attempts_log) <= MAX_ATTEMPTS
    /\ flow.pc = "main_loop" => Len(flow.attempts_log) < MAX_ATTEMPTS
    /\ flow.pc \in {"finish", "done"} => Len(flow.attempts_log) = MAX_ATTEMPTS
    /\ flow.finished = IF flow.pc = "done" THEN 1 ELSE 0
    /\ flow.pc = "done" =>
          /\ \E i \in 1..Len(flow.attempts_log) : flow.best = flow.attempts_log[i]
          /\ \A i \in 1..Len(flow.attempts_log) :
                Le(flow.attempts_log[i].backtest_result.revenue_percent.num,
                   flow.best.backtest_result.revenue_percent.num)
    /\ flow.pc # "done" => flow.best = None

\* A flow has finished after three attempts of revenues -10 %, +7 % and 0 %:
\* the second is selected.
C39_Witness ==
    /\ flow.pc = "done"
    /\ Len(flow.attempts_log) = 3
    /\ flow.attempts_log[1].backtest_result.revenue_percent.num = F(-1000, 0)
    /\ flow.attempts_log[2].backtest_result.revenue_percent.num = F(700, 0)
    /\ flow.attempts_log[3].backtest_result.revenue_percent.num = F(0, 0)
    /\ flow.best = flow.attempts_log[2]
    /\ flow.kickoffs = 2
====
